---- MODULE Spec2Model ----
(***************************************************************************)
(* Model of the account Sparse Merkle Tree (core/src/smt.rs), the gossip   *)
(* applier (node/src/main.rs handle_update) and the token RPC handlers     *)
(* (node/src/rpc.rs) of the volt network node.                             *)
(*                                                                         *)
(* Hashes are idealised: SHA-256 of a byte string is modelled by the tuple *)
(* of the hashed fields, so two hashes are equal iff their inputs are.     *)
(* u128 balances are scaled to integers modulo BalMod.                     *)
(***************************************************************************)
EXTENDS Integers, Sequences, FiniteSets, TLC

----------------------------------------------------------------------------
(* Bounds of the model *)

MaxAddr == 1
MaxTokenId == 1
MaxNonce == 1
MaxAmount == 2
MaxSteps == 3

(* Balance is u128: arithmetic is done modulo 2^128, scaled here to 4 *)
BalMod == 4

(* Nonce is u64: arithmetic is done modulo 2^64, scaled here to 4 *)
NonceMod == 4

Addrs == 0..MaxAddr
TokenIds == 0..MaxTokenId
Balances == 0..(BalMod - 1)
Nonces == 0..MaxNonce

(* the all-zero address, issuer of the native token *)
ZeroAddr == 0

(* H256::zero(), the root of the empty tree and the value of an empty slot *)
ZeroHash == <<>>

NativeMetadata == "VOLT|Volt Token|18"
Metadatas == {"FOO|Foo|6"}

VARIABLES
    smt,               \* the SMT object: accounts, tree, token_registry, root, next_token_id
    debug_assertions,  \* build profile: TRUE = arithmetic overflow panics, FALSE = it wraps
    last,              \* the last operation called and what it returned
    steps,             \* number of operations performed so far
    node,              \* the node process: boot position, barrier flag, sync tasks
    tasks              \* the requests in flight, each between two lock sections

vars == <<smt, debug_assertions, last, steps, node, tasks>>

----------------------------------------------------------------------------
(* Types *)

AccountLeaf(addr, bal, nonce, token_id) ==
    [addr |-> addr, bal |-> bal, nonce |-> nonce, token_id |-> token_id]

new_empty(addr, token_id) == AccountLeaf(addr, 0, 0, token_id)

(* AccountLeaf::hash: SHA-256(addr || bal || nonce || token_id) *)
LeafHash(leaf) == <<leaf.addr, leaf.bal, leaf.nonce, leaf.token_id>>

(* compute_leaf_key: SHA-256(addr || token_id) *)
compute_leaf_key(addr, token_id) == <<addr, token_id>>

Keys == Addrs \X TokenIds

TokenInfo(token_id, issuer, metadata, total_supply) ==
    [token_id |-> token_id, issuer |-> issuer, metadata |-> metadata,
     total_supply |-> total_supply]

----------------------------------------------------------------------------
(* The Merkle tree over the leaf keys.  The position of a key is fixed by  *)
(* its bits; an empty subtree hashes to zero, and a parent is the hash of  *)
(* its height and its two children.                                        *)

NumKeys == (MaxAddr + 1) * (MaxTokenId + 1)

KeyIndex(k) == k[1] * (MaxTokenId + 1) + k[2]

KeyAt(i) == <<i \div (MaxTokenId + 1), i % (MaxTokenId + 1)>>

TreeHeight == CHOOSE d \in 0..16 : 2^d >= NumKeys /\ \A e \in 0..(d - 1) : 2^e < NumKeys

merge(h, l, r) == IF l = ZeroHash /\ r = ZeroHash THEN ZeroHash ELSE <<h, l, r>>

tree_get(tree, k) == IF k \in DOMAIN tree THEN tree[k] ELSE ZeroHash

RECURSIVE Subtree(_, _, _)
Subtree(tree, h, i) ==
    IF h = 0
    THEN IF i < NumKeys THEN tree_get(tree, KeyAt(i)) ELSE ZeroHash
    ELSE merge(h, Subtree(tree, h - 1, 2 * i), Subtree(tree, h - 1, 2 * i + 1))

(* SMTree::root *)
tree_root(tree) == Subtree(tree, TreeHeight, 0)

(* SMTree::update *)
tree_update(tree, k, v) == [x \in (DOMAIN tree) \cup {k} |-> IF x = k THEN v ELSE tree[x]]

EmptyMap == [x \in {} |-> 0]

----------------------------------------------------------------------------
(* SMT *)

new_zero ==
    [accounts       |-> EmptyMap,
     tree           |-> EmptyMap,
     token_registry |-> [t \in {0} |-> TokenInfo(0, ZeroAddr, NativeMetadata, 0)],
     root           |-> ZeroHash,
     next_token_id  |-> 1]

Result(res, s) == [res |-> res, smt |-> s]

root(s) == s.root

(* get_account_with_token returns Ok exactly when the key is in the cache  *)
(* or has a non-zero value in the tree                                     *)
account_found(s, addr, token_id) ==
    LET k == compute_leaf_key(addr, token_id)
    IN k \in DOMAIN s.accounts \/ tree_get(s.tree, k) # ZeroHash

get_account_with_token(s, addr, token_id) ==
    LET k == compute_leaf_key(addr, token_id)
    IN IF k \in DOMAIN s.accounts THEN s.accounts[k] ELSE new_empty(addr, token_id)

update(s, leaf) ==
    LET k == compute_leaf_key(leaf.addr, leaf.token_id)
        t == tree_update(s.tree, k, LeafHash(leaf))
    IN [s EXCEPT !.tree = t,
                 !.root = tree_root(t),
                 !.accounts = [x \in (DOMAIN s.accounts) \cup {k} |->
                                  IF x = k THEN leaf ELSE s.accounts[x]]]

update_account_with_token(s, account, token_id) ==
    IF account.token_id # token_id
    THEN Result("InvalidTokenId", s)
    ELSE Result("Ok", update(s, account))

(* transfer_token with the sender written before the nonce is checked *)
transfer_token_debit_first(s, from, to, token_id, amount, nonce) ==
    IF ~account_found(s, from, token_id) THEN Result("SMTError", s)
    ELSE
    LET sender == get_account_with_token(s, from, token_id) IN
    IF sender.bal < amount THEN Result("InsufficientBalance", s)
    ELSE
    LET new_sender == AccountLeaf(from, sender.bal - amount, (sender.nonce + 1) % NonceMod,
                                  token_id)
        s1 == update(s, new_sender)
    IN IF sender.nonce # nonce THEN Result("InvalidNonce", s1)
    ELSE
    LET receiver == IF account_found(s, to, token_id)
                    THEN get_account_with_token(s, to, token_id)
                    ELSE new_empty(to, token_id)
        sum == receiver.bal + amount
        new_receiver == AccountLeaf(to, sum % BalMod, receiver.nonce, token_id)
    IN IF (sender.nonce + 1 >= NonceMod \/ sum >= BalMod) /\ debug_assertions
       THEN Result("Panic", s)
       ELSE Result("Ok", update(s1, new_receiver))

transfer_token(s, from, to, token_id, amount, nonce) ==
    IF ~account_found(s, from, token_id) THEN Result("SMTError", s)
    ELSE
    LET sender == get_account_with_token(s, from, token_id) IN
    IF sender.bal < amount THEN Result("InsufficientBalance", s)
    ELSE IF sender.nonce # nonce THEN Result("InvalidNonce", s)
    ELSE
    LET receiver == IF account_found(s, to, token_id)
                    THEN get_account_with_token(s, to, token_id)
                    ELSE new_empty(to, token_id)
        new_sender == AccountLeaf(from, sender.bal - amount, (sender.nonce + 1) % NonceMod,
                                  token_id)
        sum == receiver.bal + amount
        new_receiver == AccountLeaf(to, sum % BalMod, receiver.nonce, token_id)
    IN IF (sender.nonce + 1 >= NonceMod \/ sum >= BalMod) /\ debug_assertions
       THEN Result("Panic", s)
       ELSE Result("Ok", update(update(s, new_sender), new_receiver))

get_token_found(s, token_id) == token_id \in DOMAIN s.token_registry

get_token(s, token_id) == s.token_registry[token_id]

update_token_supply(s, token_id, amount, is_mint) ==
    IF ~get_token_found(s, token_id) THEN Result("TokenNotFound", s)
    ELSE
    LET token_info == get_token(s, token_id) IN
    IF is_mint /\ token_info.total_supply + amount >= BalMod THEN Result("SupplyOverflow", s)
    ELSE IF ~is_mint /\ token_info.total_supply < amount THEN Result("InsufficientSupply", s)
    ELSE
    LET new_supply == IF is_mint THEN token_info.total_supply + amount
                                 ELSE token_info.total_supply - amount
    IN Result("Ok", [s EXCEPT !.token_registry[token_id].total_supply = new_supply])

mint_token(s, issuer, to, token_id, amount, nonce) ==
    IF ~get_token_found(s, token_id) THEN Result("TokenNotFound", s)
    ELSE IF get_token(s, token_id).issuer # issuer THEN Result("Unauthorized", s)
    ELSE IF ~account_found(s, issuer, token_id) THEN Result("SMTError", s)
    ELSE
    LET issuer_account == get_account_with_token(s, issuer, token_id) IN
    IF issuer_account.nonce # nonce THEN Result("InvalidNonce", s)
    ELSE
    LET receiver == IF account_found(s, to, token_id)
                    THEN get_account_with_token(s, to, token_id)
                    ELSE new_empty(to, token_id)
        new_issuer == AccountLeaf(issuer, issuer_account.bal,
                                  (issuer_account.nonce + 1) % NonceMod, token_id)
        sum == receiver.bal + amount
        new_receiver == AccountLeaf(to, sum % BalMod, receiver.nonce, token_id)
        supplied == update_token_supply(s, token_id, amount, TRUE)
    IN IF (issuer_account.nonce + 1 >= NonceMod \/ sum >= BalMod) /\ debug_assertions
       THEN Result("Panic", s)
       ELSE IF supplied.res # "Ok" THEN Result(supplied.res, s)
       ELSE Result("Ok", update(update(supplied.smt, new_issuer), new_receiver))

(* mint_token_with_max_supply with the cap compared to the current supply  *)
(* alone, the minted amount left out                                       *)
mint_token_with_max_supply_amount_ignored(s, issuer, to, token_id, amount, nonce, max_supply) ==
    IF ~get_token_found(s, token_id) THEN Result("TokenNotFound", s)
    ELSE IF get_token(s, token_id).total_supply + amount >= BalMod
    THEN Result("SupplyOverflow", s)
    ELSE IF get_token(s, token_id).total_supply > max_supply
    THEN Result("ExceedsMaxSupply", s)
    ELSE mint_token(s, issuer, to, token_id, amount, nonce)

mint_token_with_max_supply(s, issuer, to, token_id, amount, nonce, max_supply) ==
    IF ~get_token_found(s, token_id) THEN Result("TokenNotFound", s)
    ELSE IF get_token(s, token_id).total_supply + amount >= BalMod
    THEN Result("SupplyOverflow", s)
    ELSE IF get_token(s, token_id).total_supply + amount > max_supply
    THEN Result("ExceedsMaxSupply", s)
    ELSE mint_token(s, issuer, to, token_id, amount, nonce)

burn_token(s, from, token_id, amount, nonce) ==
    IF ~account_found(s, from, token_id) THEN Result("SMTError", s)
    ELSE
    LET account == get_account_with_token(s, from, token_id) IN
    IF account.bal < amount THEN Result("InsufficientBalance", s)
    ELSE IF account.nonce # nonce THEN Result("InvalidNonce", s)
    ELSE
    LET new_account == AccountLeaf(from, account.bal - amount, (account.nonce + 1) % NonceMod,
                                   token_id)
        supplied == update_token_supply(s, token_id, amount, FALSE)
    IN IF account.nonce + 1 >= NonceMod /\ debug_assertions THEN Result("Panic", s)
       ELSE IF supplied.res # "Ok" THEN Result(supplied.res, s)
       ELSE Result("Ok", update(supplied.smt, new_account))

(* register_token without the bump of the next-id counter *)
register_token_reusing_id(s, issuer, metadata) ==
    LET token_id == s.next_token_id
        reg == s.token_registry
    IN [s EXCEPT !.token_registry =
                     [t \in (DOMAIN reg) \cup {token_id} |->
                         IF t = token_id THEN TokenInfo(token_id, issuer, metadata, 0)
                                         ELSE reg[t]]]

(* next_token_id is a u64 that starts at 1 and rises by one per call: it  *)
(* is kept unscaled, since 2^64 registrations are needed to wrap it       *)
register_token(s, issuer, metadata) ==
    LET token_id == s.next_token_id
        reg == s.token_registry
    IN [s EXCEPT !.token_registry =
                     [t \in (DOMAIN reg) \cup {token_id} |->
                         IF t = token_id THEN TokenInfo(token_id, issuer, metadata, 0)
                                         ELSE reg[t]],
                 !.next_token_id = token_id + 1]


(* SystemMsg: the four message kinds handled by apply *)
TransferMsg(from, to, token_id, amount, nonce) ==
    [tag |-> "Transfer", from |-> from, to |-> to, token_id |-> token_id,
     amount |-> amount, nonce |-> nonce]

MintMsg(from, to, token_id, amount, nonce) ==
    [tag |-> "Mint", from |-> from, to |-> to, token_id |-> token_id,
     amount |-> amount, nonce |-> nonce]

BurnMsg(from, token_id, amount, nonce) ==
    [tag |-> "Burn", from |-> from, token_id |-> token_id,
     amount |-> amount, nonce |-> nonce]

IssueTokenMsg(issuer, token_id, metadata, nonce) ==
    [tag |-> "IssueToken", issuer |-> issuer, token_id |-> token_id,
     metadata |-> metadata, nonce |-> nonce]

apply_issue_token(s, issuer, metadata, nonce) ==
    IF ~account_found(s, issuer, 0) THEN Result("SMTError", s)
    ELSE
    LET issuer_account == get_account_with_token(s, issuer, 0) IN
    IF issuer_account.nonce # nonce THEN Result("InvalidNonce", s)
    ELSE
    LET registered == register_token(s, issuer, metadata)
        new_issuer == AccountLeaf(issuer, issuer_account.bal,
                                  (issuer_account.nonce + 1) % NonceMod, 0)
    IN IF issuer_account.nonce + 1 >= NonceMod /\ debug_assertions
       THEN Result("Panic", registered)
       ELSE Result("Ok", update(registered, new_issuer))

apply(s, msg) ==
    CASE msg.tag = "Transfer" ->
            transfer_token(s, msg.from, msg.to, msg.token_id, msg.amount, msg.nonce)
      [] msg.tag = "Mint" ->
            mint_token(s, msg.from, msg.to, msg.token_id, msg.amount, msg.nonce)
      [] msg.tag = "Burn" ->
            burn_token(s, msg.from, msg.token_id, msg.amount, msg.nonce)
      [] msg.tag = "IssueToken" ->
            apply_issue_token(s, msg.issuer, msg.metadata, msg.nonce)

(* rebuild_from: clears the cache and the tree, stores the supplied root,  *)
(* then inserts the supplied leaves one by one                             *)
RECURSIVE insert_leaves(_, _)
insert_leaves(s, leaves) ==
    IF leaves = <<>> THEN s
    ELSE LET leaf == Head(leaves)
             k == compute_leaf_key(leaf.addr, leaf.token_id)
         IN insert_leaves(
                [s EXCEPT !.accounts = [x \in (DOMAIN s.accounts) \cup {k} |->
                                           IF x = k THEN leaf ELSE s.accounts[x]],
                          !.tree = tree_update(s.tree, k, LeafHash(leaf))],
                Tail(leaves))

rebuild_from(s, accounts, new_root) ==
    insert_leaves([s EXCEPT !.accounts = EmptyMap, !.tree = EmptyMap, !.root = new_root],
                  accounts)

set_full_state(s, accounts, new_root) ==
    Result("Ok", rebuild_from(s, accounts, new_root))

----------------------------------------------------------------------------
(* Proofs (core/src/proofs.rs) *)

(* the proof path has 256 bits, scaled here to 2 *)
PathLen == 2

(* number of levels of ZERO_HASHES that compute_zero_hashes fills in *)
ZeroHashLevels == 8

(* SHA-256 of the empty string *)
EmptyStringHash == <<0>>

(* SHA-256(a || b), or SHA-256(b || a) when bit is set *)
sha256_concat(a, b, bit) == IF bit THEN <<b, a>> ELSE <<a, b>>

RECURSIVE ZERO_HASHES(_)
ZERO_HASHES(level) ==
    IF level = 0 THEN EmptyStringHash
    ELSE IF level <= ZeroHashLevels
         THEN sha256_concat(ZERO_HASHES(level - 1), ZERO_HASHES(level - 1), FALSE)
         ELSE ZeroHash

(* bit i (from 0) of the address, most significant bit first *)
address_to_path(addr) == [i \in 1..PathLen |-> (addr \div (2^(PathLen - i))) % 2 = 1]

Proof(siblings, leaf_hash, zeros_omitted, leaf_data) ==
    [siblings |-> siblings, leaf_hash |-> leaf_hash,
     zeros_omitted |-> zeros_omitted, leaf_data |-> leaf_data]

RECURSIVE fold_proof(_, _, _, _)
fold_proof(proof, path, i, current_hash) ==
    IF i >= PathLen THEN current_hash
    ELSE LET bit == IF i < Len(path) THEN path[i + 1] ELSE FALSE
             sibling == IF i < Len(proof.siblings)
                        THEN proof.siblings[i + 1]
                        ELSE ZERO_HASHES(PathLen - 1 - i)
         IN fold_proof(proof, path, i + 1, sha256_concat(current_hash, sibling, bit))

compute_root_from_proof(proof, path) == fold_proof(proof, path, 0, proof.leaf_hash)

verify(proof, expected_root, addr) ==
    IF Len(proof.siblings) + proof.zeros_omitted # PathLen
    THEN FALSE
    ELSE compute_root_from_proof(proof, address_to_path(addr)) = expected_root

(* extract_account_data: Some(account) iff leaf data is carried and hashes *)
(* to the proof's leaf hash; leaf_data is a sequence of zero or one leaf   *)
has_account_data(proof) ==
    proof.leaf_data # <<>> /\ LeafHash(proof.leaf_data[1]) = proof.leaf_hash

verify_transaction(proof, tx_root, addr, nonce, local_root) ==
    LET verify_against_tx_root == verify(proof, tx_root, addr)
        verify_against_local_root ==
            IF ~verify_against_tx_root /\ tx_root # local_root
            THEN verify(proof, local_root, addr)
            ELSE FALSE
    IN IF ~verify_against_tx_root /\ ~verify_against_local_root THEN FALSE
       ELSE IF has_account_data(proof)
            THEN LET account_nonce == proof.leaf_data[1].nonce
                 IN IF nonce = account_nonce THEN TRUE
                    ELSE IF nonce > account_nonce THEN nonce - account_nonce <= 2
                    ELSE FALSE
            ELSE verify_against_tx_root \/ verify_against_local_root

----------------------------------------------------------------------------
(* Signatures: an Ed25519 signature is modelled by the pair of the signing *)
(* key and the signed bytes; the address is the public key                 *)

Sign(key, preimage) == <<key, preimage>>

(* the JSON that verify_signature rebuilds from an UpdateMsg *)
update_preimage(u) == <<u.from, u.to, u.amount, u.nonce>>

verify_signature(u) == u.signature = Sign(u.from, update_preimage(u))

----------------------------------------------------------------------------
(* The gossip applier (node/src/main.rs) *)

UpdateMsg(from, to, token_id, amount, pre_root, post_root, proof_from, proof_to, nonce, signature) ==
    [from |-> from, to |-> to, token_id |-> token_id, amount |-> amount,
     root |-> pre_root, post_root |-> post_root, proof_from |-> proof_from,
     proof_to |-> proof_to, nonce |-> nonce, signature |-> signature]

(* the checks made before the SMT is locked for the transfer: the          *)
(* signature, and the two proofs against the message's root and the local  *)
(* root read in a lock section of its own                                  *)
verify_update(u, local_root) ==
    IF ~verify_signature(u) THEN "InvalidSignature"
    ELSE IF ~verify_transaction(u.proof_from, u.root, u.from, u.nonce, local_root)
    THEN "InvalidProof"
    ELSE IF ~verify_transaction(u.proof_to, u.root, u.to, 0, local_root)
    THEN "InvalidProof"
    ELSE "Ok"

(* the lock section that processes the transfer *)
process_update(s, u) ==
    IF ~account_found(s, u.from, 0) THEN Result("AccountNotFound", s)
    ELSE
    LET account == get_account_with_token(s, u.from, 0) IN
    IF account.bal < u.amount THEN Result("InsufficientBalance", s)
    ELSE IF account.nonce > u.nonce THEN Result("InvalidNonce", s)
    ELSE IF account.nonce < u.nonce /\ u.nonce - account.nonce > 2
    THEN Result("InvalidNonce", s)
    ELSE
    IF account.nonce + 1 >= NonceMod /\ debug_assertions THEN Result("Panic", s)
    ELSE
    LET sender_account == AccountLeaf(account.addr, account.bal - u.amount,
                                      (account.nonce + 1) % NonceMod, account.token_id)
        s1 == update(s, sender_account)
        found == account_found(s1, u.to, 0)
        old_recipient == get_account_with_token(s1, u.to, 0)
        sum == old_recipient.bal + u.amount
        recipient_account ==
            IF found
            THEN AccountLeaf(old_recipient.addr, sum % BalMod, old_recipient.nonce,
                             old_recipient.token_id)
            ELSE AccountLeaf(u.to, u.amount, 0, 0)
        s2 == update(s1, recipient_account)
    IN IF found /\ sum >= BalMod /\ debug_assertions THEN Result("Panic", s1)
       ELSE IF root(s2) # u.post_root
       THEN Result("StateMismatch",
                   set_full_state(s2, <<sender_account, recipient_account>>, u.root).smt)
       ELSE Result("Ok", s2)

handle_update(s, u) ==
    IF verify_update(u, root(s)) # "Ok" THEN Result(verify_update(u, root(s)), s)
    ELSE process_update(s, u)

----------------------------------------------------------------------------
(* The p3p_mintToken RPC (node/src/rpc.rs) *)

(* the Mint message serialized with a zeroed signature field *)
mint_preimage(m) == <<"Mint", m.from, m.to, m.token_id, m.amount, m.nonce>>

handle_mint_token(s, m, signature) ==
    IF signature # Sign(m.from, mint_preimage(m)) THEN Result("InvalidSignature", s)
    ELSE IF ~get_token_found(s, m.token_id) THEN Result("TokenNotFound", s)
    ELSE
    LET issuer_account == IF account_found(s, m.from, m.token_id)
                          THEN get_account_with_token(s, m.from, m.token_id)
                          ELSE new_empty(m.from, m.token_id)
    IN IF issuer_account.nonce # m.nonce THEN Result("InvalidNonce", s)
       ELSE IF issuer_account.nonce + 1 >= NonceMod /\ debug_assertions THEN Result("Panic", s)
       ELSE
       LET s1 == update_account_with_token(
                     s, [issuer_account EXCEPT !.nonce = (@ + 1) % NonceMod], m.token_id).smt
           recipient_account == IF account_found(s1, m.to, m.token_id)
                                THEN get_account_with_token(s1, m.to, m.token_id)
                                ELSE new_empty(m.to, m.token_id)
           sum == recipient_account.bal + m.amount
       IN IF sum >= BalMod /\ debug_assertions THEN Result("Panic", s1)
          ELSE Result("Ok", update_account_with_token(
                                s1, [recipient_account EXCEPT !.bal = sum % BalMod],
                                m.token_id).smt)

----------------------------------------------------------------------------
(* The send RPC (node/src/rpc.rs) *)

(* the non-zero siblings of leaf i on its way to the root, leaf side first *)
RECURSIVE merkle_path(_, _, _)
merkle_path(tree, i, h) ==
    IF h >= TreeHeight THEN <<>>
    ELSE LET idx == i \div (2^h)
             sib == IF idx % 2 = 0 THEN idx + 1 ELSE idx - 1
             v == Subtree(tree, h, sib)
         IN (IF v = ZeroHash THEN <<>> ELSE <<v>>) \o merkle_path(tree, i, h + 1)

gen_proof_with_token(s, addr, token_id) ==
    LET k == compute_leaf_key(addr, token_id)
        siblings == merkle_path(s.tree, KeyIndex(k), 0)
        present == k \in DOMAIN s.accounts
        leaf_hash == IF present THEN LeafHash(s.accounts[k])
                     ELSE LeafHash(new_empty(addr, token_id))
        zeros_omitted == IF Len(siblings) < PathLen THEN PathLen - Len(siblings) ELSE 0
    IN Proof(siblings, leaf_hash, zeros_omitted, IF present THEN <<s.accounts[k]>> ELSE <<>>)

(* the JSON that handle_send verifies the signature against *)
send_preimage(from, to, token_id, amount, nonce) == <<from, to, token_id, amount, nonce>>

SendResult(res, s, u) == [res |-> res, smt |-> s, update |-> u]

handle_send(s, from, to, token_id, amount, nonce, signature) ==
    IF signature # Sign(from, send_preimage(from, to, token_id, amount, nonce))
    THEN SendResult("InvalidSignature", s, <<>>)
    ELSE
    LET pre_root == root(s)
        proof_from == gen_proof_with_token(s, from, token_id)
        proof_to == gen_proof_with_token(s, to, token_id)
    IN
    IF ~account_found(s, from, token_id) THEN SendResult("AccountNotFound", s, <<>>)
    ELSE
    LET sender_account == get_account_with_token(s, from, token_id) IN
    IF sender_account.nonce # nonce THEN SendResult("InvalidNonce", s, <<>>)
    ELSE IF sender_account.bal < amount THEN SendResult("InsufficientBalance", s, <<>>)
    ELSE IF sender_account.nonce + 1 >= NonceMod /\ debug_assertions
    THEN SendResult("Panic", s, <<>>)
    ELSE
    LET s1 == update_account_with_token(
                  s, AccountLeaf(from, sender_account.bal - amount,
                                 (sender_account.nonce + 1) % NonceMod, token_id),
                  token_id).smt
        recipient_account == IF account_found(s1, to, token_id)
                             THEN get_account_with_token(s1, to, token_id)
                             ELSE new_empty(to, token_id)
        sum == recipient_account.bal + amount
        s2 == update_account_with_token(
                  s1, [recipient_account EXCEPT !.bal = sum % BalMod], token_id).smt
    IN IF sum >= BalMod /\ debug_assertions THEN SendResult("Panic", s1, <<>>)
       ELSE SendResult("Ok", s2,
                       UpdateMsg(from, to, token_id, amount, pre_root, pre_root,
                                 proof_from, proof_to, nonce, signature))

----------------------------------------------------------------------------
(* Inputs *)

Amounts == 0..MaxAmount
MsgNonces == 0..MaxNonce

(* leaves written directly with update, as the funding of an account *)
UpdateLeaves == {AccountLeaf(a, b, 0, t) : a \in Addrs, b \in {0, MaxAmount}, t \in TokenIds}

SystemMsgs ==
    {TransferMsg(f, t, k, a, n) : f \in Addrs, t \in Addrs, k \in TokenIds,
                                  a \in Amounts, n \in MsgNonces}
    \cup {MintMsg(f, t, k, a, n) : f \in Addrs, t \in Addrs, k \in TokenIds,
                                   a \in Amounts, n \in MsgNonces}
    \cup {BurnMsg(f, k, a, n) : f \in Addrs, k \in TokenIds, a \in Amounts, n \in MsgNonces}
    \cup {IssueTokenMsg(i, 0, m, n) : i \in Addrs, m \in Metadatas, n \in MsgNonces}

(* snapshots offered to set_full_state: leaf lists of a peer *)
SnapshotLeaves == {AccountLeaf(a, 1, 0, 0) : a \in Addrs}

Snapshots ==
    {<<>>} \cup {<<l>> : l \in SnapshotLeaves}
           \cup {<<l1, l2>> : l1 \in SnapshotLeaves, l2 \in SnapshotLeaves}

(* the root a peer holding exactly these leaves reports *)
snapshot_root(accounts) == tree_root(rebuild_from(new_zero, accounts, ZeroHash).tree)

(* A pair of proofs for from and to that fold to one common root under the *)
(* verification algorithm: where the two paths part, each proof carries    *)
(* the other's running hash as sibling; above that point the sibling is    *)
(* the running hash itself                                                 *)
RECURSIVE craft(_, _, _, _, _, _, _)
craft(pf, pt, i, hf, ht, sf, st) ==
    IF i > PathLen THEN [siblings_from |-> sf, siblings_to |-> st, root |-> hf]
    ELSE LET zero == ZERO_HASHES(PathLen - i)
             sibf == IF hf = ht THEN hf ELSE IF pf[i] # pt[i] THEN ht ELSE zero
             sibt == IF hf = ht THEN ht ELSE IF pf[i] # pt[i] THEN hf ELSE zero
         IN craft(pf, pt, i + 1,
                  sha256_concat(hf, sibf, pf[i]), sha256_concat(ht, sibt, pt[i]),
                  Append(sf, sibf), Append(st, sibt))

(* what an honest proof carries for addr: the native leaf, if there is one *)
leaf_data_of(s, addr) ==
    IF compute_leaf_key(addr, 0) \in DOMAIN s.accounts
    THEN <<s.accounts[compute_leaf_key(addr, 0)]>>
    ELSE <<>>

proof_leaf_hash(addr, leaf_data) ==
    IF leaf_data = <<>> THEN LeafHash(new_empty(addr, 0)) ELSE LeafHash(leaf_data[1])

(* the root a peer in the same state computes for the transfer *)
peer_post_root(s, from, to, amount) ==
    LET r == transfer_token(s, from, to, 0, amount,
                            get_account_with_token(s, from, 0).nonce)
    IN IF r.res = "Ok" THEN root(r.smt) ELSE root(s)

UpdateVariants == {"good", "bad_signature", "bad_proof", "bad_post_root", "no_leaf_data"}

peer_update(s, from, to, token_id, amount, nonce, variant) ==
    LET data_from == IF variant = "no_leaf_data" THEN <<>> ELSE leaf_data_of(s, from)
        data_to == IF variant = "no_leaf_data" THEN <<>> ELSE leaf_data_of(s, to)
        c == craft(address_to_path(from), address_to_path(to), 1,
                   proof_leaf_hash(from, data_from), proof_leaf_hash(to, data_to),
                   <<>>, <<>>)
        proof_from == Proof(c.siblings_from, proof_leaf_hash(from, data_from), 0, data_from)
        proof_to == Proof(c.siblings_to, proof_leaf_hash(to, data_to),
                          IF variant = "bad_proof" THEN 1 ELSE 0, data_to)
        post == IF variant = "bad_post_root" THEN ZeroHash
                ELSE peer_post_root(s, from, to, amount)
        signer == IF variant = "bad_signature" THEN (from + 1) % (MaxAddr + 1) ELSE from
    IN UpdateMsg(from, to, token_id, amount, c.root, post, proof_from, proof_to, nonce,
                 Sign(signer, <<from, to, amount, nonce>>))

----------------------------------------------------------------------------
(* Actions *)

NoArgs == [tag |-> "none"]

(* outside the boot sequence the node process is not modelled *)
NoNode == [main |-> "none"]

(* no request is in flight *)
NoTasks == <<>>

(* the record of a call: its arguments are kept when it succeeded *)
Called(op, res, args) == [op |-> op, res |-> res, args |-> IF res = "Ok" THEN args ELSE NoArgs]

Init ==
    /\ smt = new_zero
    /\ debug_assertions \in BOOLEAN
    /\ last = Called("new_zero", "Ok", NoArgs)
    /\ steps = 0
    /\ node = NoNode
    /\ tasks = NoTasks

Step ==
    /\ steps < MaxSteps
    /\ steps' = steps + 1
    /\ UNCHANGED <<debug_assertions, node, tasks>>

Update ==
    \E leaf \in UpdateLeaves :
        /\ Step
        /\ smt' = update(smt, leaf)
        /\ last' = Called("update", "Ok", leaf)

Apply ==
    \E msg \in SystemMsgs :
        LET r == apply(smt, msg) IN
        /\ Step
        /\ smt' = r.smt
        /\ last' = Called("apply_" \o msg.tag, r.res, msg)

SetFullState ==
    \E accounts \in Snapshots :
        \E new_root \in {snapshot_root(accounts), root(smt)} :
            LET r == set_full_state(smt, accounts, new_root) IN
            /\ Step
            /\ smt' = r.smt
            /\ last' = Called("set_full_state", r.res,
                              [accounts |-> accounts, root |-> new_root])

HandleUpdate ==
    \E from \in Addrs, to \in Addrs, token_id \in TokenIds, amount \in Amounts,
       nonce \in MsgNonces, variant \in UpdateVariants :
        LET u == peer_update(smt, from, to, token_id, amount, nonce, variant)
            r == handle_update(smt, u)
        IN /\ Step
           /\ smt' = r.smt
           /\ last' = Called("handle_update", r.res, u)

RpcMintToken ==
    \E from \in Addrs, to \in Addrs, token_id \in TokenIds, amount \in Amounts,
       nonce \in MsgNonces, signer \in Addrs :
        LET m == MintMsg(from, to, token_id, amount, nonce)
            r == handle_mint_token(smt, m, Sign(signer, mint_preimage(m)))
        IN /\ Step
           /\ smt' = r.smt
           /\ last' = Called("p3p_mintToken", r.res, m)

(* a send RPC served by this node; the UpdateMsg it queues for broadcast   *)
(* is delivered to a peer that holds the state this node had before, and   *)
(* what the peer's handle_update made of it is kept in last.peer           *)
Send ==
    \E from \in Addrs, to \in Addrs, token_id \in TokenIds, amount \in Amounts,
       nonce \in MsgNonces, signer \in Addrs :
        LET r == handle_send(smt, from, to, token_id, amount, nonce,
                             Sign(signer, send_preimage(from, to, token_id, amount, nonce)))
        IN /\ Step
           /\ smt' = r.smt
           /\ last' = [op |-> "send", res |-> r.res,
                       args |-> IF r.res = "Ok"
                                THEN TransferMsg(from, to, token_id, amount, nonce)
                                ELSE NoArgs,
                       peer |-> IF r.res = "Ok" THEN handle_update(smt, r.update)
                                ELSE NoArgs]

(* the SMT used as a library: direct updates, apply and snapshot import *)
Next ==
    \/ Update
    \/ Apply
    \/ SetFullState

Spec == Init /\ [][Next]_vars

(* a node fed by gossip *)
NextGossip ==
    \/ Update
    \/ HandleUpdate

SpecGossip == Init /\ [][NextGossip]_vars

(* a node serving the token RPCs *)
NextRpc ==
    \/ Update
    \/ Apply
    \/ RpcMintToken

SpecRpc == Init /\ [][NextRpc]_vars

(* a node serving the send RPC, with a peer listening to its gossip *)
NextSend ==
    \/ Update
    \/ Send

SpecSend == Init /\ [][NextSend]_vars

(* transfer_token as a function of the state it is called in: the state is *)
(* drawn from the states that at most two direct updates build, and the    *)
(* transfer is called once on it; its arguments are kept whatever it       *)
(* returns                                                                 *)
FundingLeaves ==
    {AccountLeaf(a, b, n, t) : a \in Addrs, b \in {0, MaxAmount}, n \in Nonces, t \in TokenIds}

FundedStates ==
    {new_zero} \cup {update(new_zero, l) : l \in FundingLeaves}
               \cup {update(update(new_zero, l1), l2) : l1 \in FundingLeaves, l2 \in FundingLeaves}

InitFunded ==
    /\ smt \in FundedStates
    /\ debug_assertions \in BOOLEAN
    /\ last = Called("new_zero", "Ok", NoArgs)
    /\ steps = 0
    /\ node = NoNode
    /\ tasks = NoTasks

Transfer ==
    \E from \in Addrs, to \in Addrs, token_id \in TokenIds, amount \in Amounts,
       nonce \in MsgNonces :
        LET r == transfer_token(smt, from, to, token_id, amount, nonce) IN
        /\ steps = 0
        /\ steps' = 1
        /\ smt' = r.smt
        /\ last' = [op |-> "transfer_token", res |-> r.res,
                    args |-> TransferMsg(from, to, token_id, amount, nonce)]
        /\ UNCHANGED <<debug_assertions, node, tasks>>

NextTransfer == Transfer

SpecTransfer == InitFunded /\ [][NextTransfer]_vars

(* apply on accounts whose nonce is at either end of the u64 range: the    *)
(* state is built by at most two direct updates, then messages are applied *)
EdgeNonces == {0, NonceMod - 1}

EdgeLeaves ==
    {AccountLeaf(a, MaxAmount, n, t) : a \in Addrs, n \in EdgeNonces, t \in TokenIds}

EdgeStates ==
    {update(new_zero, l) : l \in EdgeLeaves}
        \cup {update(update(new_zero, l1), l2) : l1 \in EdgeLeaves, l2 \in EdgeLeaves}

EdgeMsgs ==
    {TransferMsg(f, t, k, a, n) : f \in Addrs, t \in Addrs, k \in TokenIds,
                                  a \in Amounts, n \in EdgeNonces}
    \cup {MintMsg(f, t, k, a, n) : f \in Addrs, t \in Addrs, k \in TokenIds,
                                   a \in Amounts, n \in EdgeNonces}
    \cup {BurnMsg(f, k, a, n) : f \in Addrs, k \in TokenIds, a \in Amounts, n \in EdgeNonces}
    \cup {IssueTokenMsg(i, 0, m, n) : i \in Addrs, m \in Metadatas, n \in EdgeNonces}

InitEdge ==
    /\ smt \in EdgeStates
    /\ debug_assertions \in BOOLEAN
    /\ last = Called("new_zero", "Ok", NoArgs)
    /\ steps = 0
    /\ node = NoNode
    /\ tasks = NoTasks

ApplyEdge ==
    \E msg \in EdgeMsgs :
        LET r == apply(smt, msg) IN
        /\ Step
        /\ smt' = r.smt
        /\ last' = Called("apply_" \o msg.tag, r.res, msg)

NextEdge == ApplyEdge

SpecEdge == InitEdge /\ [][NextEdge]_vars

----------------------------------------------------------------------------
(* The boot sequence of a node started with bootstrap peers and the RPC    *)
(* server enabled (node/src/main.rs), from the spawn of the periodic sync  *)
(* task on. The SMT mutex makes each lock section one step; an HTTP fetch  *)
(* is a step of its own, taken with the lock released.                     *)

(* get_all_accounts: the leaves held in the accounts cache *)
RECURSIVE leaves_upto(_, _)
leaves_upto(s, i) == IF i < 0 THEN <<>> ELSE leaves_upto(s, i - 1) \o (IF KeyAt(i) \in DOMAIN s.accounts THEN <<s.accounts[KeyAt(i)]>> ELSE <<>>)

(* get_all_accounts that leaves out the leaves with a zero balance *)
get_all_accounts_funded_only(s) == SelectSeq(leaves_upto(s, NumKeys - 1), LAMBDA account : account.bal > 0)

get_all_accounts(s) == leaves_upto(s, NumKeys - 1)

(* the fold of calculate_consensus_scores over one list of leaves; the sum *)
(* of the balances is a u128 addition                                      *)
RECURSIVE fold_accounts(_, _)
fold_accounts(accounts, acc) ==
    IF accounts = <<>> THEN acc
    ELSE LET account == Head(accounts)
             sum == acc.total_balance + account.bal
         IN fold_accounts(Tail(accounts),
                [total_balance |-> sum % BalMod,
                 highest_nonce |-> IF account.nonce > acc.highest_nonce THEN account.nonce ELSE acc.highest_nonce,
                 active_accounts |-> acc.active_accounts + (IF account.bal > 0 THEN 1 ELSE 0),
                 overflow |-> acc.overflow \/ sum >= BalMod])

consensus_fold(accounts) == fold_accounts(accounts, [total_balance |-> 0, highest_nonce |-> 0, active_accounts |-> 0, overflow |-> FALSE])

consensus_score(accounts) ==
    LET f == consensus_fold(accounts)
    IN f.active_accounts * 10 + f.highest_nonce * 100 + (f.total_balance \div 1000)

(* what get_full_state of a bootstrap peer answers *)
FullState(accounts) == [accounts |-> accounts, root |-> snapshot_root(accounts)]

NoFullState == [accounts |-> <<>>, root |-> "none"]

(* the state the node holds when the periodic task is spawned: the state   *)
(* loaded from the database, or the one an earlier sync adopted            *)
(* the leaf lists the bootstrap peers answer with *)
PeerStates == {<<AccountLeaf(0, 1, 0, 0)>>, <<AccountLeaf(0, 1, 0, 0), AccountLeaf(1, 1, 0, 0)>>}

BootStates == {rebuild_from(new_zero, accounts, snapshot_root(accounts)) : accounts \in {<<>>} \cup PeerStates}

is_empty_root(s) == root(s) = ZeroHash

(* the lock section both sync paths run on a fetched state; compare is     *)
(* FALSE when synchronize_state_from_network found the root empty before   *)
(* the fetch                                                               *)
sync_section(s, full_state, compare) ==
    IF compare /\ root(s) = full_state.root THEN Result("in_sync", s)
    ELSE IF compare /\ (consensus_fold(get_all_accounts(s)).overflow \/ consensus_fold(full_state.accounts).overflow) /\ debug_assertions
    THEN Result("Panic", s)
    ELSE IF compare /\ consensus_score(get_all_accounts(s)) >= consensus_score(full_state.accounts)
    THEN Result("kept", s)
    ELSE Result("adopted", set_full_state(s, full_state.accounts, full_state.root).smt)

InitBoot ==
    /\ smt \in BootStates
    /\ debug_assertions \in BOOLEAN
    /\ last = Called("load_from_db", "Ok", NoArgs)
    /\ steps = 0
    /\ node = [main |-> "sync_start", is_empty_root |-> FALSE, fetched |-> NoFullState,
               sync_result |-> FALSE, state_synced |-> FALSE, rpc |-> "off",
               periodic |-> "tick", periodic_fetched |-> NoFullState,
               peer_synced |-> FALSE, poisoned |-> FALSE]
    /\ tasks = NoTasks

(* synchronize_state_from_network reads the root under the lock *)
SyncStart ==
    /\ node.main = "sync_start" /\ ~node.poisoned
    /\ node' = [node EXCEPT !.main = "sync_fetch", !.is_empty_root = is_empty_root(smt)]
    /\ UNCHANGED <<smt, debug_assertions, last, steps, tasks>>

(* the requests to the bootstrap peers: one of them answers, or all fail *)
SyncFetch ==
    /\ node.main = "sync_fetch"
    /\ \/ \E accounts \in PeerStates :
            node' = [node EXCEPT !.main = "sync_apply", !.fetched = FullState(accounts)]
       \/ node' = [node EXCEPT !.main = "barrier", !.sync_result = FALSE]
    /\ UNCHANGED <<smt, debug_assertions, last, steps, tasks>>

SyncApply ==
    /\ node.main = "sync_apply" /\ ~node.poisoned
    /\ LET r == sync_section(smt, node.fetched, ~node.is_empty_root) IN
       /\ smt' = r.smt
       /\ last' = [op |-> "startup_sync", res |-> r.res, args |-> node.fetched]
       /\ node' = IF r.res = "Panic"
                  THEN [node EXCEPT !.main = "panicked", !.poisoned = TRUE, !.fetched = NoFullState]
                  ELSE [node EXCEPT !.main = "barrier", !.sync_result = TRUE,
                                    !.peer_synced = TRUE, !.fetched = NoFullState]
    /\ UNCHANGED <<debug_assertions, steps, tasks>>

(* the barrier flag is set after the startup sync, and nowhere else *)
Barrier ==
    /\ node.main = "barrier" /\ (node.sync_result \/ ~node.poisoned)
    /\ node' = [node EXCEPT !.main = "rpc_decide",
                            !.state_synced = node.sync_result \/ ~is_empty_root(smt)]
    /\ UNCHANGED <<smt, debug_assertions, last, steps, tasks>>

(* the RPC server is started at once, or left to a task that waits for the flag *)
RpcDecide ==
    /\ node.main = "rpc_decide"
    /\ node' = [node EXCEPT !.main = "event_loop",
                            !.rpc = IF node.state_synced THEN "serving" ELSE "waiting"]
    /\ UNCHANGED <<smt, debug_assertions, last, steps, tasks>>

(* one round of the waiting task: it polls the flag and starts the server  *)
(* when the flag is set                                                    *)
RpcWaiter ==
    /\ node.rpc = "waiting"
    /\ node' = IF node.state_synced THEN [node EXCEPT !.rpc = "serving"] ELSE node
    /\ UNCHANGED <<smt, debug_assertions, last, steps, tasks>>

(* the periodic task: a tick, the requests to the peers, the lock section *)
PeriodicFetch ==
    /\ node.periodic = "tick"
    /\ \/ \E accounts \in PeerStates :
            node' = [node EXCEPT !.periodic = "fetched", !.periodic_fetched = FullState(accounts)]
       \/ node' = [node EXCEPT !.periodic = "failed"]
    /\ UNCHANGED <<smt, debug_assertions, last, steps, tasks>>

PeriodicFailed ==
    /\ node.periodic = "failed"
    /\ node' = [node EXCEPT !.periodic = "tick"]
    /\ UNCHANGED <<smt, debug_assertions, last, steps, tasks>>

PeriodicApply ==
    /\ node.periodic = "fetched" /\ ~node.poisoned
    /\ LET r == sync_section(smt, node.periodic_fetched, TRUE) IN
       /\ smt' = r.smt
       /\ last' = [op |-> "periodic_sync", res |-> r.res, args |-> node.periodic_fetched]
       /\ node' = IF r.res = "Panic"
                  THEN [node EXCEPT !.periodic = "panicked", !.poisoned = TRUE,
                                    !.periodic_fetched = NoFullState]
                  ELSE [node EXCEPT !.periodic = "tick", !.peer_synced = TRUE,
                                    !.periodic_fetched = NoFullState]
    /\ UNCHANGED <<debug_assertions, steps, tasks>>

(* the main event loop hands every UpdateReceived to handle_update *)
GossipUpdate ==
    \E from \in Addrs, to \in Addrs, amount \in Amounts, nonce \in MsgNonces :
        LET u == peer_update(smt, from, to, 0, amount, nonce, "good")
            r == handle_update(smt, u)
        IN /\ node.main = "event_loop" /\ ~node.poisoned
           /\ Step
           /\ smt' = r.smt
           /\ last' = Called("handle_update", r.res, u)

(* the RPC server, once started, serves send *)
RpcServe ==
    \E from \in Addrs, to \in Addrs, token_id \in TokenIds, amount \in Amounts, nonce \in MsgNonces :
        LET r == handle_send(smt, from, to, token_id, amount, nonce,
                             Sign(from, send_preimage(from, to, token_id, amount, nonce)))
        IN /\ node.rpc = "serving" /\ ~node.poisoned
           /\ Step
           /\ smt' = r.smt
           /\ last' = Called("send", r.res, TransferMsg(from, to, token_id, amount, nonce))

MainTask == SyncStart \/ SyncFetch \/ SyncApply \/ Barrier \/ RpcDecide

PeriodicTask == PeriodicFetch \/ PeriodicFailed \/ PeriodicApply

NextBoot == MainTask \/ PeriodicTask \/ RpcWaiter \/ GossipUpdate \/ RpcServe

SpecBoot == InitBoot /\ [][NextBoot]_vars

(* the tokio runtime keeps scheduling every spawned task and the main      *)
(* task: each of them takes its next step when it can; the arrival of      *)
(* gossip messages and RPC requests is left to the environment             *)
SpecBootFair == SpecBoot /\ WF_vars(MainTask) /\ WF_vars(PeriodicTask) /\ WF_vars(RpcWaiter)

----------------------------------------------------------------------------
(* Requests in flight on one node: two tasks, each a send RPC or the       *)
(* gossip applier. A task takes the SMT lock twice: a send first reads the *)
(* root and generates the proofs, then checks and applies the transfer; an *)
(* update first reads the local root (and verifies the proofs against it), *)
(* then checks and applies the transfer. Each lock section is one step.    *)
TaskIds == {1, 2}

IdleTask == [pc |-> "idle"]

other(t) == 3 - t

(* the accounts the requests draw on: one funded leaf *)
ConcStates == {update(new_zero, l) : l \in {f \in FundingLeaves : f.bal = MaxAmount}}

InitConc ==
    /\ smt \in ConcStates
    /\ debug_assertions \in BOOLEAN
    /\ last = Called("new_zero", "Ok", NoArgs)
    /\ steps = 0
    /\ node = NoNode
    /\ tasks = [t \in TaskIds |-> IdleTask]

(* handle_send up to the end of its first lock section *)
SendBegin(t) ==
    \E from \in Addrs, to \in Addrs, token_id \in TokenIds, amount \in Amounts \ {0}, nonce \in MsgNonces :
        /\ tasks[t].pc = "idle"
        /\ tasks' = [tasks EXCEPT ![t] =
                        [pc |-> "send_ready", kind |-> "send",
                         msg |-> TransferMsg(from, to, token_id, amount, nonce),
                         signature |-> Sign(from, send_preimage(from, to, token_id, amount, nonce)),
                         root |-> root(smt),
                         proof_from |-> gen_proof_with_token(smt, from, token_id),
                         proof_to |-> gen_proof_with_token(smt, to, token_id)]]
        /\ UNCHANGED <<smt, debug_assertions, last, steps, node>>

(* the second lock section of handle_send: the checks and the transfer *)
SendCommit(t) ==
    /\ tasks[t].pc = "send_ready"
    /\ LET m == tasks[t].msg
           r == handle_send(smt, m.from, m.to, m.token_id, m.amount, m.nonce, tasks[t].signature)
       IN /\ smt' = r.smt
          /\ last' = Called("send", r.res, m)
          /\ tasks' = [tasks EXCEPT ![t] =
                          [pc |-> "done", kind |-> "send", msg |-> m, res |-> r.res,
                           overlapped |-> tasks[other(t)].pc \in {"send_ready", "update_ready"}]]
    /\ steps' = steps + 1
    /\ UNCHANGED <<debug_assertions, node>>

(* handle_update up to the lock section of the transfer; the event loop    *)
(* handles one update at a time                                            *)
UpdateBegin(t) ==
    \E from \in Addrs, to \in Addrs, amount \in Amounts \ {0}, nonce \in MsgNonces :
        LET u == peer_update(smt, from, to, 0, amount, nonce, "good")
            v == verify_update(u, root(smt))
        IN /\ tasks[t].pc = "idle"
           /\ tasks[other(t)].pc # "update_ready"
           /\ tasks' = [tasks EXCEPT ![t] =
                           IF v = "Ok"
                           THEN [pc |-> "update_ready", kind |-> "update",
                                 msg |-> TransferMsg(from, to, 0, amount, nonce), update |-> u]
                           ELSE [pc |-> "done", kind |-> "update",
                                 msg |-> TransferMsg(from, to, 0, amount, nonce), res |-> v,
                                 overlapped |-> FALSE]]
           /\ UNCHANGED <<smt, debug_assertions, last, steps, node>>

UpdateCommit(t) ==
    /\ tasks[t].pc = "update_ready"
    /\ LET r == process_update(smt, tasks[t].update)
       IN /\ smt' = r.smt
          /\ last' = Called("handle_update", r.res, tasks[t].msg)
          /\ tasks' = [tasks EXCEPT ![t] =
                          [pc |-> "done", kind |-> "update", msg |-> tasks[t].msg, res |-> r.res,
                           overlapped |-> tasks[other(t)].pc \in {"send_ready", "update_ready"}]]
    /\ steps' = steps + 1
    /\ UNCHANGED <<debug_assertions, node>>

NextConc == \E t \in TaskIds : SendBegin(t) \/ SendCommit(t) \/ UpdateBegin(t) \/ UpdateCommit(t)

SpecConc == InitConc /\ [][NextConc]_vars

----------------------------------------------------------------------------
(* Capped minting: a caller that mints only with mint_token_with_max_supply *)
(* under one fixed max_supply. The states it starts on hold the issuer's   *)
(* leaf of a token with no supply yet: the native token, or a token just   *)
(* registered; node holds the caller's cap                                 *)
CappedStates ==
    {update(new_zero, AccountLeaf(ZeroAddr, 0, n, 0)) : n \in Nonces}
        \cup {update(register_token(new_zero, i, m), AccountLeaf(i, 0, n, 1)) : i \in Addrs, m \in Metadatas, n \in Nonces}

InitCapped ==
    /\ smt \in CappedStates
    /\ debug_assertions \in BOOLEAN
    /\ last = Called("new_zero", "Ok", NoArgs)
    /\ steps = 0
    /\ node = [main |-> "none", max_supply |-> 0]
    /\ tasks = NoTasks

(* the caller fixes its cap before the first mint *)
ChooseCap ==
    /\ steps = 0 /\ last.op = "new_zero"
    /\ \E max_supply \in Balances :
           /\ node' = [node EXCEPT !.max_supply = max_supply]
           /\ last' = Called("max_supply", "Ok", NoArgs)
    /\ UNCHANGED <<smt, debug_assertions, steps, tasks>>

MintCapped ==
    \E issuer \in Addrs, to \in Addrs, token_id \in TokenIds, amount \in Amounts, nonce \in MsgNonces :
        LET r == mint_token_with_max_supply(smt, issuer, to, token_id, amount, nonce, node.max_supply) IN
        /\ last.op # "new_zero"
        /\ Step
        /\ smt' = r.smt
        /\ last' = [op |-> "mint_token_with_max_supply", res |-> r.res,
                    args |-> [token_id |-> token_id]]

NextCapped == ChooseCap \/ MintCapped

SpecCapped == InitCapped /\ [][NextCapped]_vars

(* every reachable SMT has the shape the code maintains *)
TypeOK ==
    /\ DOMAIN smt.accounts \subseteq Keys
    /\ DOMAIN smt.tree = DOMAIN smt.accounts
    /\ \A k \in DOMAIN smt.accounts : smt.tree[k] = LeafHash(smt.accounts[k])
    /\ steps \in 0..MaxSteps

----------------------------------------------------------------------------
(* Observers used by the properties *)

balance_of(s, addr, token_id) == get_account_with_token(s, addr, token_id).bal

nonce_of(s, addr, token_id) == get_account_with_token(s, addr, token_id).nonce

RECURSIVE sum_upto(_, _, _)
sum_upto(s, token_id, a) ==
    IF a < 0 THEN 0 ELSE balance_of(s, a, token_id) + sum_upto(s, token_id, a - 1)

(* the sum of the balances of all leaves of one token, as get_all_accounts lists them *)
SumBalances(s, token_id) == sum_upto(s, token_id, MaxAddr)

total_supply(s, token_id) == get_token(s, token_id).total_supply

(* the supply identity: every registered token's total_supply is the sum of its balances *)
SupplyIdentity(s) ==
    \A t \in DOMAIN s.token_registry : total_supply(s, t) = SumBalances(s, t)

(* every leaf belongs to a registered token *)
LeavesRegistered(s) ==
    \A k \in DOMAIN s.accounts : get_token_found(s, s.accounts[k].token_id)

(* the Merkle root of a set of leaves *)
merkle_root_of(accounts) ==
    tree_root([k \in DOMAIN accounts |-> LeafHash(accounts[k])])

ApplyOps == {"apply_Transfer", "apply_Mint", "apply_Burn", "apply_IssueToken"}

SmtOps == ApplyOps \cup {"update", "set_full_state"}

MintOps == {"apply_Mint", "p3p_mintToken"}

UpdateRejections ==
    {"InvalidSignature", "InvalidProof", "AccountNotFound", "InsufficientBalance",
     "InvalidNonce", "StateMismatch"}

----------------------------------------------------------------------------
(* Properties *)

(* C1: every successful Transfer, a transfer from an address to itself     *)
(* included, leaves the sum of the balances of its token unchanged         *)
C1_TransferConservesBalances ==
    [][(last'.op = "apply_Transfer" /\ last'.res = "Ok")
         => SumBalances(smt', last'.args.token_id) = SumBalances(smt, last'.args.token_id)]_vars

(* C2: right after a successful Transfer, applying the very same message   *)
(* again is rejected with InvalidNonce and changes nothing                 *)
C2_ReplayRejected ==
    (last.op = "apply_Transfer" /\ last.res = "Ok")
        => LET r == apply(smt, last.args)
           IN r.res = "InvalidNonce" /\ r.smt = smt

(* C3: whenever handle_update rejects an update, for whatever reason, the  *)
(* SMT has the same leaves and the same root as before the call            *)
C3_RejectedUpdateChangesNothing ==
    [][(last'.op = "handle_update" /\ last'.res \in UpdateRejections)
         => (smt'.accounts = smt.accounts /\ smt'.tree = smt.tree /\ root(smt') = root(smt))]_vars

(* C4: a successful apply of a Transfer, Mint, Burn or IssueToken in a     *)
(* state where the supply identity holds (and no leaf belongs to a token   *)
(* that is not registered) leads to a state where the identity holds       *)
C4_SupplyIdentityPreserved ==
    [][(SupplyIdentity(smt) /\ LeavesRegistered(smt)
          /\ last'.op \in ApplyOps /\ last'.res = "Ok")
         => SupplyIdentity(smt')]_vars

(* C5: a mint, through apply or through the p3p_mintToken RPC, succeeds    *)
(* only when its sender is the issuer of the token; a mint rejected as     *)
(* Unauthorized changes nothing                                            *)
C5_OnlyIssuerMints ==
    [][/\ (last'.op \in MintOps /\ last'.res = "Ok")
            => (/\ get_token_found(smt, last'.args.token_id)
                /\ get_token(smt, last'.args.token_id).issuer = last'.args.from)
       /\ (last'.op \in MintOps /\ last'.res = "Unauthorized") => smt' = smt]_vars

(* C6: a transfer whose amount exceeds the sender's balance, or whose      *)
(* nonce is not the sender's current nonce, returns an error and leaves    *)
(* every leaf and the root as they were                                    *)
C6_FailedTransferChangesNothing ==
    [][last'.op = "transfer_token"
         => LET m == last'.args
                sender == get_account_with_token(smt, m.from, m.token_id)
            IN (account_found(smt, m.from, m.token_id)
                  /\ (m.amount > sender.bal \/ m.nonce # sender.nonce))
                => (/\ last'.res \in {"InsufficientBalance", "InvalidNonce"}
                    /\ smt'.accounts = smt.accounts
                    /\ smt'.tree = smt.tree
                    /\ root(smt') = root(smt))]_vars

(* a transfer between two different funded accounts, of an amount the      *)
(* sender holds, was refused for its nonce                                 *)
C6_Witness ==
    /\ last.op = "transfer_token"
    /\ last.res = "InvalidNonce"
    /\ last.args.from # last.args.to
    /\ last.args.amount > 0
    /\ account_found(smt, last.args.from, last.args.token_id)
    /\ account_found(smt, last.args.to, last.args.token_id)
    /\ balance_of(smt, last.args.from, last.args.token_id) >= last.args.amount

(* C7: every successful mint_token, the issuer minting to itself included, *)
(* raises the issuer's nonce on the token by one, the receiver's balance   *)
(* by the amount and the total supply by the amount                        *)
C7_MintEffects ==
    [][(last'.op = "apply_Mint" /\ last'.res = "Ok")
         => LET m == last'.args
            IN /\ nonce_of(smt', m.from, m.token_id) = nonce_of(smt, m.from, m.token_id) + 1
               /\ balance_of(smt', m.to, m.token_id)
                      = balance_of(smt, m.to, m.token_id) + m.amount
               /\ total_supply(smt', m.token_id)
                      = total_supply(smt, m.token_id) + m.amount]_vars

(* C8: right after an IssueToken of issuer I with nonce 0 was applied and  *)
(* assigned tid, mint_token(I, R, tid, amount, 0) succeeds for any R that  *)
(* holds nothing of tid, and leaves R with the amount, the supply at the   *)
(* amount, and I's nonce at 1 on the native token and on tid               *)
C8_MintAfterIssue ==
    (last.op = "apply_IssueToken" /\ last.res = "Ok" /\ last.args.nonce = 0)
        => LET I == last.args.issuer
               tid == smt.next_token_id - 1
           IN \A R \in Addrs, amount \in Amounts \ {0} :
                 balance_of(smt, R, tid) = 0
                   => LET r == mint_token(smt, I, R, tid, amount, 0)
                      IN /\ r.res = "Ok"
                         /\ balance_of(r.smt, R, tid) = amount
                         /\ total_supply(r.smt, tid) = amount
                         /\ nonce_of(r.smt, I, 0) = 1
                         /\ nonce_of(r.smt, I, tid) = 1

(* C9: after every SMT operation that returned success, root() is the      *)
(* Merkle root of the current leaves                                       *)
C9_RootIsMerkleRoot ==
    (last.op \in SmtOps /\ last.res = "Ok") => root(smt) = merkle_root_of(smt.accounts)

(* C10: set_full_state succeeds only when the root recomputed from the     *)
(* supplied leaves equals the supplied root                                *)
C10_SetFullStateVerifiesRoot ==
    [][(last'.op = "set_full_state" /\ last'.res = "Ok")
         => merkle_root_of(rebuild_from(smt, last'.args.accounts, last'.args.root).accounts)
                = last'.args.root]_vars

(* C11: across every successful apply (Transfer, Mint, Burn, IssueToken)   *)
(* no leaf disappears and no leaf's nonce decreases                        *)
C11_NonceNeverDecreases ==
    [][(last'.op \in ApplyOps /\ last'.res = "Ok")
         => \A k \in DOMAIN smt.accounts :
               /\ k \in DOMAIN smt'.accounts
               /\ smt'.accounts[k].nonce >= smt.accounts[k].nonce]_vars

(* C12: when handle_update accepts an update whose nonce is ahead of the   *)
(* sender's nonce, the sender's nonce afterwards is the message nonce + 1  *)
C12_FutureNonceAdvances ==
    [][(/\ last'.op = "handle_update"
        /\ last'.res = "Ok"
        /\ last'.args.nonce > nonce_of(smt, last'.args.from, 0))
         => nonce_of(smt', last'.args.from, 0) = last'.args.nonce + 1]_vars

(* C13: when handle_update accepts an update of token t, the leaves of     *)
(* every other token are as they were before                               *)
C13_OtherTokensUntouched ==
    [][(last'.op = "handle_update" /\ last'.res = "Ok")
         => \A a \in Addrs, t \in TokenIds :
               t # last'.args.token_id
                 => /\ account_found(smt', a, t) = account_found(smt, a, t)
                    /\ get_account_with_token(smt', a, t) = get_account_with_token(smt, a, t)]_vars

(* C14: when a send RPC succeeds on a node and its UpdateMsg reaches a peer *)
(* that holds the node's previous state, the peer applies it and ends with *)
(* the node's root and the node's balances for the two addresses           *)
C14_PeerConverges ==
    [][(last'.op = "send" /\ last'.res = "Ok")
         => LET m == last'.args
                peer == last'.peer
            IN /\ peer.res = "Ok"
               /\ root(peer.smt) = root(smt')
               /\ balance_of(peer.smt, m.from, m.token_id) = balance_of(smt', m.from, m.token_id)
               /\ balance_of(peer.smt, m.to, m.token_id) = balance_of(smt', m.to, m.token_id)]_vars

(* C15: on boot with bootstrap peers configured, no RPC request is served  *)
(* and no gossip UpdateMsg is processed before the state is synchronized:  *)
(* a sync from a peer succeeded, or a non-empty local state was accepted   *)
(* after every peer failed                                                 *)
C15_BlockedUntilSynced ==
    [][(steps' # steps /\ last'.op \in {"handle_update", "send"})
        => (node.state_synced \/ node.peer_synced)]_vars

(* C16: when every bootstrap peer failed at startup with an empty local    *)
(* state (the RPC server is left waiting), the node keeps retrying in the  *)
(* background, and once such a later sync from a peer has succeeded the    *)
(* RPC server is eventually started                                        *)
C16_RetryStartsRpc ==
    (node.rpc = "waiting" /\ node.peer_synced /\ ~node.poisoned) ~> (node.rpc = "serving")

(* C17: a node whose local state is non-empty replaces it with a remote    *)
(* snapshot only when remote_score > local_score, in the startup sync and  *)
(* in the periodic resync, however the two interleave                      *)
C17_AdoptOnlyHigherScore ==
    [][(/\ \/ node.main = "sync_apply" /\ node'.main = "barrier" /\ last'.op = "startup_sync"
           \/ node.periodic = "fetched" /\ node'.periodic = "tick" /\ last'.op = "periodic_sync"
        /\ last'.res = "adopted"
        /\ root(smt') # root(smt)
        /\ ~is_empty_root(smt))
        => consensus_score(last'.args.accounts) > consensus_score(get_all_accounts(smt))]_vars

(* C18: of two applications from the same (address, token_id) carrying the *)
(* same nonce that run concurrently, at most one is applied: the SMT lock  *)
(* serializes them and the second sees the updated nonce and is rejected   *)
C18_SameNonceAppliedOnce ==
    ~(/\ tasks # NoTasks
      /\ tasks[1].pc = "done" /\ tasks[2].pc = "done"
      /\ tasks[1].overlapped \/ tasks[2].overlapped
      /\ tasks[1].msg.from = tasks[2].msg.from
      /\ tasks[1].msg.token_id = tasks[2].msg.token_id
      /\ tasks[1].msg.nonce = tasks[2].msg.nonce
      /\ tasks[1].res = "Ok" /\ tasks[2].res = "Ok")

(* the capped mints a caller can issue in the current state under its cap *)
CappedMintCalls == Addrs \X Addrs \X TokenIds \X Amounts \X MsgNonces

capped_mint(c) == mint_token_with_max_supply(smt, c[1], c[2], c[3], c[4], c[5], node.max_supply)

over_cap(c) == get_token_found(smt, c[3]) /\ total_supply(smt, c[3]) + c[4] > node.max_supply

(* C19 as stated: whenever total_supply + amount > max_supply the capped   *)
(* mint fails with ExceedsMaxSupply and changes nothing                    *)
C19_ExceedsMaxSupply ==
    last.op # "new_zero" =>
        \A c \in CappedMintCalls :
            over_cap(c) => (capped_mint(c).res = "ExceedsMaxSupply" /\ capped_mint(c).smt = smt)

(* C19 amended: whenever total_supply + amount > max_supply the capped     *)
(* mint fails and changes nothing, with SupplyOverflow when the sum does   *)
(* not fit a u128 and with ExceedsMaxSupply otherwise; a token minted only *)
(* through this operation under one max_supply never has a total_supply    *)
(* above it                                                                *)
C19_CappedMintFails ==
    last.op # "new_zero" =>
        /\ \A t \in DOMAIN smt.token_registry : total_supply(smt, t) <= node.max_supply
        /\ \A c \in CappedMintCalls :
               over_cap(c) =>
                   /\ capped_mint(c).smt = smt
                   /\ capped_mint(c).res = IF total_supply(smt, c[3]) + c[4] >= BalMod
                                           THEN "SupplyOverflow" ELSE "ExceedsMaxSupply"

(* C19 witness: a capped mint was refused with ExceedsMaxSupply after an   *)
(* earlier one had raised the supply                                       *)
C19_Witness ==
    /\ last.op = "mint_token_with_max_supply"
    /\ last.res = "ExceedsMaxSupply"
    /\ total_supply(smt, last.args.token_id) > 0
    /\ total_supply(smt, last.args.token_id) <= node.max_supply

(* C20: a successful burn_token(from, token_id, amount, nonce) had         *)
(* balance >= amount and nonce equal to the holder's nonce; it decreases   *)
(* the holder's balance and the token's total_supply by amount, increments *)
(* the holder's nonce by 1 and keeps the leaf, also at balance zero        *)
C20_BurnEffects ==
    [][(steps' # steps /\ last'.op = "apply_Burn" /\ last'.res = "Ok") =>
        LET m == last'.args IN
        /\ account_found(smt, m.from, m.token_id)
        /\ balance_of(smt, m.from, m.token_id) >= m.amount
        /\ nonce_of(smt, m.from, m.token_id) = m.nonce
        /\ account_found(smt', m.from, m.token_id)
        /\ balance_of(smt', m.from, m.token_id) = balance_of(smt, m.from, m.token_id) - m.amount
        /\ total_supply(smt', m.token_id) = total_supply(smt, m.token_id) - m.amount
        /\ nonce_of(smt', m.from, m.token_id) = nonce_of(smt, m.from, m.token_id) + 1]_vars

(* C21: apply(IssueToken) succeeds only when the message nonce equals the  *)
(* issuer's native-token nonce, and it increments that nonce by 1, so the  *)
(* same message applied a second time is rejected and registers no token   *)
C21_IssueTokenNonce ==
    [][(steps' # steps /\ last'.op = "apply_IssueToken" /\ last'.res = "Ok") =>
        LET m == last'.args IN
        /\ nonce_of(smt, m.issuer, 0) = m.nonce
        /\ nonce_of(smt', m.issuer, 0) = m.nonce + 1
        /\ apply(smt', m).res # "Ok"
        /\ apply(smt', m).smt.token_registry = smt'.token_registry]_vars

(* C22: an IssueToken message whose token_id field is 0 is rejected and    *)
(* registers no token: an IssueToken that apply accepts carries another    *)
(* token_id                                                                *)
C22_IssueTokenZeroRejected ==
    [][(steps' # steps /\ last'.op = "apply_IssueToken" /\ last'.res = "Ok")
        => last'.args.token_id # 0]_vars

----------------------------------------------------------------------------
(* Token registry: registrations through register_token directly (the RPC  *)
(* path) and through apply(IssueToken), interleaved with mints that rewrite *)
(* a registry entry's total_supply; the start states hold an address's     *)
(* leaves for the native token and for token 1, as update leaves them      *)

RegistryStates ==
    {update(update(new_zero, AccountLeaf(i, 0, 0, 0)), AccountLeaf(i, 0, 0, 1)) : i \in Addrs}

InitRegistry ==
    /\ smt \in RegistryStates
    /\ debug_assertions \in BOOLEAN
    /\ last = Called("new_zero", "Ok", NoArgs)
    /\ steps = 0
    /\ node = NoNode
    /\ tasks = NoTasks

RegisterToken ==
    \E issuer \in Addrs, metadata \in Metadatas :
        /\ Step
        /\ smt' = register_token(smt, issuer, metadata)
        /\ last' = Called("register_token", "Ok", NoArgs)

ApplyIssueToken ==
    \E issuer \in Addrs, metadata \in Metadatas, nonce \in MsgNonces :
        LET r == apply(smt, IssueTokenMsg(issuer, 0, metadata, nonce)) IN
        /\ Step
        /\ smt' = r.smt
        /\ last' = Called("apply_IssueToken", r.res, NoArgs)

MintRegistered ==
    \E issuer \in Addrs, token_id \in DOMAIN smt.token_registry, amount \in Amounts \ {0} :
        LET r == mint_token(smt, issuer, issuer, token_id, amount, 0) IN
        /\ Step
        /\ smt' = r.smt
        /\ last' = Called("mint_token", r.res, NoArgs)

NextRegistry == RegisterToken \/ ApplyIssueToken \/ MintRegistered

SpecRegistry == InitRegistry /\ [][NextRegistry]_vars

(* C23: next_token_id is strictly greater than every token id in the       *)
(* registry before and after every step, and a step that adds a registry   *)
(* entry adds exactly the id next_token_id held, raises next_token_id by 1 *)
(* and leaves the id, issuer and metadata of every older entry unchanged   *)
C23_NextTokenIdAboveRegistry ==
    [][LET reg == smt.token_registry
           reg2 == smt'.token_registry
       IN /\ \A t \in DOMAIN reg : t < smt.next_token_id
          /\ \A t \in DOMAIN reg2 : t < smt'.next_token_id
          /\ DOMAIN reg \subseteq DOMAIN reg2
          /\ \A t \in DOMAIN reg : /\ reg2[t].token_id = t
                                   /\ reg2[t].issuer = reg[t].issuer
                                   /\ reg2[t].metadata = reg[t].metadata
          /\ (DOMAIN reg2 # DOMAIN reg) =>
                 /\ DOMAIN reg2 = DOMAIN reg \cup {smt.next_token_id}
                 /\ smt'.next_token_id = smt.next_token_id + 1
                 /\ reg2[smt.next_token_id].total_supply = 0]_vars

(* two tokens registered in a row hold the ids 1 and 2, and a mint has     *)
(* rewritten the entry of one of them                                      *)
C23_Witness ==
    /\ DOMAIN smt.token_registry = 0..2
    /\ smt.next_token_id = 3
    /\ smt.token_registry[1].total_supply > 0

----------------------------------------------------------------------------
(* Snapshot export and import: get_all_accounts walks a HashMap, so the    *)
(* leaves come out in an order the caller cannot choose                    *)

(* the orders in which the leaves of a list can be handed over *)
orderings(accounts) ==
    {[i \in 1..Len(accounts) |-> accounts[q[i]]] :
        q \in {p \in [1..Len(accounts) -> 1..Len(accounts)] :
                  \A i, j \in 1..Len(accounts) : i # j => p[i] # p[j]}}

ExportLeaves == {AccountLeaf(a, b, 0, t) : a \in Addrs, b \in {0, MaxAmount}, t \in TokenIds}

InitSnapshot ==
    /\ smt = new_zero
    /\ debug_assertions \in BOOLEAN
    /\ last = Called("new_zero", "Ok", NoArgs)
    /\ steps = 0
    /\ node = NoNode
    /\ tasks = NoTasks

UpdateLeaf ==
    \E leaf \in ExportLeaves :
        /\ Step
        /\ smt' = update(smt, leaf)
        /\ last' = Called("update", "Ok", NoArgs)

(* a snapshot received from a peer, with the root the peer names *)
ImportPeerState ==
    \E accounts \in PeerStates :
        \E new_root \in {snapshot_root(accounts), ZeroHash} :
            LET r == set_full_state(smt, accounts, new_root) IN
            /\ Step
            /\ smt' = r.smt
            /\ last' = Called("set_full_state", r.res, NoArgs)

(* the node's own export handed back to set_full_state *)
ImportOwnState ==
    \E accounts \in orderings(get_all_accounts(smt)) :
        LET r == set_full_state(smt, accounts, root(smt)) IN
        /\ Step
        /\ smt' = r.smt
        /\ last' = Called("set_full_state_own", r.res, NoArgs)

NextSnapshot == UpdateLeaf \/ ImportPeerState \/ ImportOwnState

SpecSnapshot == InitSnapshot /\ [][NextSnapshot]_vars

(* C24: set_full_state called with the leaves get_all_accounts returns (in *)
(* any order) and the current root succeeds and leaves the stored root,    *)
(* the set of leaves and the tree as they were                             *)
C24_ImportOwnStateIsNoOp ==
    [][(steps' # steps /\ last'.op = "set_full_state_own") =>
           /\ last'.res = "Ok"
           /\ root(smt') = root(smt)
           /\ smt'.accounts = smt.accounts
           /\ smt'.tree = smt.tree]_vars

(* the own export was imported into a state of at least two leaves, one of *)
(* them with a zero balance                                                *)
C24_Witness ==
    /\ last.op = "set_full_state_own"
    /\ Cardinality(DOMAIN smt.accounts) >= 2
    /\ \E k \in DOMAIN smt.accounts : smt.accounts[k].bal = 0

----------------------------------------------------------------------------
(* Batching: the (address, token_id) keys whose leaves a message reads or  *)
(* writes when apply handles it                                            *)
touched_keys(msg) ==
    CASE msg.tag = "Transfer" -> {compute_leaf_key(msg.from, msg.token_id), compute_leaf_key(msg.to, msg.token_id)}
      [] msg.tag = "Mint" -> {compute_leaf_key(msg.from, msg.token_id), compute_leaf_key(msg.to, msg.token_id)}
      [] msg.tag = "Burn" -> {compute_leaf_key(msg.from, msg.token_id)}
      [] msg.tag = "IssueToken" -> {compute_leaf_key(msg.issuer, 0)}

(* C25: in every reachable state, two messages that touch disjoint         *)
(* (address, token_id) keys and that apply accepts each on its own are     *)
(* both accepted in either order, and the two orders end with the same     *)
(* leaves and the same root                                                *)
C25_DisjointKeysCommute ==
    \A t1, t2 \in SystemMsgs :
        (/\ touched_keys(t1) \cap touched_keys(t2) = {}
         /\ apply(smt, t1).res = "Ok"
         /\ apply(smt, t2).res = "Ok") =>
            LET t1_t2 == apply(apply(smt, t1).smt, t2)
                t2_t1 == apply(apply(smt, t2).smt, t1)
            IN /\ t1_t2.res = "Ok"
               /\ t2_t1.res = "Ok"
               /\ t1_t2.smt.accounts = t2_t1.smt.accounts
               /\ root(t1_t2.smt) = root(t2_t1.smt)

----------------------------------------------------------------------------
(* The RPC handlers with the outbound channels and the proof store         *)
(* (node/src/rpc.rs, node/src/main.rs, network/src/storage.rs)             *)

(* capacity of the gossip_tx and update_tx channels, scaled down from 100 *)
ChannelCap == 1

(* the hard-coded treasury wallet of handle_mint *)
treasury_address == MaxAddr

(* the message the mint RPC expects to be signed: "mint:{to}:{amount}" *)
mint_rpc_preimage(to, amount) == <<"mint", to, amount>>

(* ProofStore::put_proof: the entry is keyed by (address, root) *)
put_proof(store, address, proof_root) == store \cup {<<address, proof_root>>}

MintResult(res, s, sent, store) == [res |-> res, smt |-> s, sent |-> sent, proof_store |-> store]

(* handle_mint: the signature and treasury checks, the lock section that   *)
(* writes both leaves, try_send on gossip_tx, then the two put_proof calls *)
handle_mint(s, store, channel_full, from, to, amount, signature) ==
    IF signature # Sign(from, mint_rpc_preimage(to, amount))
    THEN MintResult("InvalidSignature", s, FALSE, store)
    ELSE IF from # treasury_address THEN MintResult("Unauthorized", s, FALSE, store)
    ELSE
    LET treasury_account == IF account_found(s, from, 0)
                            THEN get_account_with_token(s, from, 0)
                            ELSE new_empty(from, 0)
    IN
    IF treasury_account.nonce + 1 >= NonceMod /\ debug_assertions
    THEN MintResult("Panic", s, FALSE, store)
    ELSE
    LET s1 == update(s, [treasury_account EXCEPT !.nonce = (treasury_account.nonce + 1) % NonceMod])
        recipient_account == IF account_found(s1, to, 0)
                             THEN get_account_with_token(s1, to, 0)
                             ELSE new_empty(to, 0)
        sum == recipient_account.bal + amount
        s2 == update(s1, [recipient_account EXCEPT !.bal = sum % BalMod])
    IN IF sum >= BalMod /\ debug_assertions THEN MintResult("Panic", s1, FALSE, store)
       ELSE IF channel_full THEN MintResult("BroadcastFailed", s2, FALSE, store)
       ELSE MintResult("Ok", s2, TRUE, put_proof(put_proof(store, from, root(s2)), to, root(s2)))

(* the funded states the RPC server starts from *)
RpcNodeStates == {update(new_zero, AccountLeaf(a, MaxAmount, 0, 0)) : a \in Addrs}

InitRpcNode ==
    /\ smt \in RpcNodeStates
    /\ debug_assertions \in BOOLEAN
    /\ last = Called("new_zero", "Ok", NoArgs)
    /\ steps = 0
    /\ node = [main |-> "rpc", update_tx |-> 0, gossip_tx |-> 0, proof_store |-> {}]
    /\ tasks = NoTasks

RpcStep ==
    /\ steps < MaxSteps
    /\ steps' = steps + 1
    /\ UNCHANGED <<debug_assertions, tasks>>

(* handle_send: the transfer is written, then try_send on update_tx, whose *)
(* failure is logged; the handler makes no put_proof call                  *)
RpcSend ==
    \E from \in Addrs, to \in Addrs, amount \in Amounts, nonce \in MsgNonces :
        LET r == handle_send(smt, from, to, 0, amount, nonce,
                             Sign(from, send_preimage(from, to, 0, amount, nonce)))
            queued == r.res = "Ok" /\ node.update_tx < ChannelCap
        IN /\ RpcStep
           /\ smt' = r.smt
           /\ node' = [node EXCEPT !.update_tx = IF queued THEN @ + 1 ELSE @]
           /\ last' = Called("send", r.res, [from |-> from, to |-> to])

RpcMint ==
    \E from \in Addrs, to \in Addrs, amount \in Amounts \ {0} :
        LET r == handle_mint(smt, node.proof_store, node.gossip_tx >= ChannelCap, from, to,
                             amount, Sign(from, mint_rpc_preimage(to, amount)))
        IN /\ RpcStep
           /\ smt' = r.smt
           /\ node' = [node EXCEPT !.gossip_tx = IF r.sent THEN @ + 1 ELSE @,
                                   !.proof_store = r.proof_store]
           /\ last' = Called("mint", r.res, [from |-> from, to |-> to])

(* handle_update: after a transfer was applied, the proofs of the message  *)
(* are stored under the root the message names                             *)
GossipTransfer ==
    \E from \in Addrs, to \in Addrs, amount \in Amounts, nonce \in MsgNonces :
        LET u == peer_update(smt, from, to, 0, amount, nonce, "good")
            r == handle_update(smt, u)
        IN /\ RpcStep
           /\ smt' = r.smt
           /\ node' = [node EXCEPT !.proof_store =
                          IF r.res = "Ok" THEN put_proof(put_proof(@, u.from, u.root), u.to, u.root)
                          ELSE @]
           /\ last' = Called("handle_update", r.res, [from |-> from, to |-> to])

(* the two forwarding tasks take one message off their channel *)
ForwardUpdate ==
    /\ node.update_tx > 0
    /\ node' = [node EXCEPT !.update_tx = @ - 1]
    /\ UNCHANGED <<smt, debug_assertions, last, steps, tasks>>

ForwardMint ==
    /\ node.gossip_tx > 0
    /\ node' = [node EXCEPT !.gossip_tx = @ - 1]
    /\ UNCHANGED <<smt, debug_assertions, last, steps, tasks>>

NextRpcNode == RpcSend \/ RpcMint \/ GossipTransfer \/ ForwardUpdate \/ ForwardMint

SpecRpcNode == InitRpcNode /\ [][NextRpcNode]_vars

(* C26: a send or mint RPC that ran while its outbound channel was full    *)
(* and that wrote its transaction into the local state (without a panic)   *)
(* reports success to the caller                                           *)
C26_FullChannelStillOk ==
    [][(/\ steps' # steps
        /\ \/ last'.op = "send" /\ node.update_tx >= ChannelCap
           \/ last'.op = "mint" /\ node.gossip_tx >= ChannelCap
        /\ smt' # smt
        /\ last'.res # "Panic") => last'.res = "Ok"]_vars

(* C27: after a transfer that the RPC send or the gossip applier applied   *)
(* successfully, the proof store holds an entry for the sender and one for *)
(* the recipient, both keyed by the root the apply produced                *)
C27_ProofsUnderNewRoot ==
    [][(steps' # steps /\ last'.op \in {"send", "handle_update"} /\ last'.res = "Ok") =>
           /\ <<last'.args.from, root(smt')>> \in node'.proof_store
           /\ <<last'.args.to, root(smt')>> \in node'.proof_store]_vars

(* C28: in every reachable state and for every address, with or without a  *)
(* leaf, the proof gen_proof returns for the address verifies against the  *)
(* current root                                                            *)
C28_GenProofVerifies ==
    \A a \in Addrs : verify(gen_proof_with_token(smt, a, 0), root(smt), a)

----------------------------------------------------------------------------
(* Persistence (core/src/smt.rs): the RocksDB column families "meta" and   *)
(* "leaves" are a record of the stored root, the stored next token id, the *)
(* stored token infos and the map from leaf key to stored leaf             *)

(* persist_to_db, as new_with_db calls it on a fresh state *)
persist_to_db(s) ==
    [root |-> s.root, next_token_id |-> s.next_token_id,
     tokens |-> s.token_registry, leaves |-> s.accounts]

(* the puts that update makes after the in-memory write: the leaf, then the root *)
persist_update(db, s, leaf) ==
    LET k == compute_leaf_key(leaf.addr, leaf.token_id)
    IN [db EXCEPT !.leaves = [x \in (DOMAIN db.leaves) \cup {k} |-> IF x = k THEN leaf ELSE db.leaves[x]],
                  !.root = s.root]

(* the stored leaves in the order the iterator of the column family yields them *)
RECURSIVE stored_leaves_upto(_, _)
stored_leaves_upto(db, i) == IF i < 0 THEN <<>> ELSE stored_leaves_upto(db, i - 1) \o (IF KeyAt(i) \in DOMAIN db.leaves THEN <<db.leaves[KeyAt(i)]>> ELSE <<>>)

(* load_from_db: starts from new_zero, copies the stored root and next     *)
(* token id, inserts every stored leaf into the cache and the tree, loads  *)
(* the token infos, and ends by overwriting root with the root of the tree *)
load_from_db(db) ==
    LET s0 == [new_zero EXCEPT !.root = db.root, !.next_token_id = db.next_token_id]
        s1 == insert_leaves(s0, stored_leaves_upto(db, NumKeys - 1))
        s2 == [s1 EXCEPT !.token_registry =
                   [t \in (DOMAIN db.tokens) \cup {0} |->
                       IF t \in DOMAIN db.tokens THEN db.tokens[t] ELSE new_zero.token_registry[0]]]
    IN Result("Ok", [s2 EXCEPT !.root = tree_root(s2.tree)])

(* the operations collected in the WriteBatch of atomic_persist_state *)
RECURSIVE batch_deletes(_, _)
batch_deletes(db, i) == IF i < 0 THEN <<>> ELSE batch_deletes(db, i - 1) \o (IF KeyAt(i) \in DOMAIN db.leaves THEN <<[op |-> "delete_cf", key |-> KeyAt(i)]>> ELSE <<>>)

batch_puts(accounts) ==
    [i \in 1..Len(accounts) |->
        [op |-> "put_cf", key |-> compute_leaf_key(accounts[i].addr, accounts[i].token_id),
         leaf |-> accounts[i]]]

atomic_persist_batch(db, accounts, new_root) ==
    batch_deletes(db, NumKeys - 1) \o batch_puts(accounts) \o <<[op |-> "put_root", root |-> new_root]>>

(* a write that applies the puts of the batch and skips its deletes *)
RECURSIVE write_puts_only(_, _)
write_puts_only(db, batch) ==
    IF batch = <<>> THEN db
    ELSE LET b == Head(batch)
             next == CASE b.op = "delete_cf" -> db
                       [] b.op = "put_cf" ->
                            [db EXCEPT !.leaves = [x \in (DOMAIN db.leaves) \cup {b.key} |->
                                                      IF x = b.key THEN b.leaf ELSE db.leaves[x]]]
                       [] b.op = "put_root" -> [db EXCEPT !.root = b.root]
         IN write_puts_only(next, Tail(batch))

(* DB::write: the operations of the batch take effect in order, all at once *)
RECURSIVE write(_, _)
write(db, batch) ==
    IF batch = <<>> THEN db
    ELSE LET b == Head(batch)
             next == CASE b.op = "delete_cf" ->
                            [db EXCEPT !.leaves = [x \in (DOMAIN db.leaves) \ {b.key} |-> db.leaves[x]]]
                       [] b.op = "put_cf" ->
                            [db EXCEPT !.leaves = [x \in (DOMAIN db.leaves) \cup {b.key} |->
                                                      IF x = b.key THEN b.leaf ELSE db.leaves[x]]]
                       [] b.op = "put_root" -> [db EXCEPT !.root = b.root]
         IN write(next, Tail(batch))

(* the leaves written directly and the snapshots imported in this part *)
StoredLeaves == {AccountLeaf(a, MaxAmount, 0, t) : a \in Addrs, t \in {0, MaxTokenId}}

StoredSnapshots == {<<>>} \cup PeerStates

(* how a set_full_state call can end: the batch is written; the write      *)
(* fails; the process dies before or after the write                       *)
WriteOutcomes == {"Ok", "SMTError", "crash_before_write", "crash_after_write"}

InitDb ==
    /\ smt = new_zero
    /\ debug_assertions \in BOOLEAN
    /\ last = Called("new_with_db", "Ok", NoArgs)
    /\ steps = 0
    /\ node = [main |-> "running", db |-> persist_to_db(new_zero)]
    /\ tasks = NoTasks

DbStep ==
    /\ steps < MaxSteps
    /\ steps' = steps + 1
    /\ UNCHANGED <<debug_assertions, tasks>>

UpdateDb ==
    \E leaf \in StoredLeaves :
        /\ node.main = "running"
        /\ DbStep
        /\ smt' = update(smt, leaf)
        /\ node' = [node EXCEPT !.db = persist_update(@, smt', leaf)]
        /\ last' = Called("update", "Ok", NoArgs)

SetFullStateDb ==
    \E accounts \in StoredSnapshots, outcome \in WriteOutcomes :
        \E new_root \in {snapshot_root(accounts), ZeroHash} :
            LET batch == atomic_persist_batch(node.db, accounts, new_root)
                written == outcome \in {"Ok", "crash_after_write"}
            IN /\ node.main = "running"
               /\ DbStep
               /\ smt' = rebuild_from(smt, accounts, new_root)
               /\ node' = [main |-> IF outcome \in {"Ok", "SMTError"} THEN "running" ELSE "down",
                           db |-> IF written THEN write(node.db, batch) ELSE node.db]
               /\ last' = Called("set_full_state", outcome,
                                 [deleted |-> Len(batch_deletes(node.db, NumKeys - 1)),
                                  put |-> Len(accounts)])

(* the process dies between two operations *)
Crash ==
    /\ node.main = "running"
    /\ node' = [node EXCEPT !.main = "down"]
    /\ UNCHANGED <<smt, debug_assertions, last, steps, tasks>>

(* main: the state is loaded from the database; on Ok the node runs with   *)
(* the loaded state, on Err it runs with SMT::new_with_db                  *)
LoadFromDb ==
    LET r == load_from_db(node.db) IN
    /\ node.main = "down"
    /\ DbStep
    /\ smt' = IF r.res = "Ok" THEN r.smt ELSE new_zero
    /\ node' = [main |-> "running",
                db |-> IF r.res = "Ok" THEN node.db ELSE persist_to_db(new_zero)]
    /\ last' = Called("load_from_db", r.res, NoArgs)

NextDb == UpdateDb \/ SetFullStateDb \/ Crash \/ LoadFromDb

SpecDb == InitDb /\ [][NextDb]_vars

(* the root of the tree built from the stored leaves *)
stored_leaves_root(db) == tree_root(insert_leaves(new_zero, stored_leaves_upto(db, NumKeys - 1)).tree)

(* C29: when the state is loaded from a database whose stored root differs *)
(* from the root recomputed from the stored leaves, the load reports an    *)
(* error and the node does not start                                       *)
C29_LoadChecksStoredRoot ==
    [][(steps' # steps /\ last'.op = "load_from_db" /\ stored_leaves_root(node.db) # node.db.root) =>
           /\ last'.res # "Ok"
           /\ node'.main # "running"]_vars

(* C30: whatever way a set_full_state call ends (written, write failed,    *)
(* process dead before or after the write), the stored leaves and root     *)
(* afterwards are either exactly those stored before the call or exactly   *)
(* the leaves and the root of the new snapshot, and they are the new       *)
(* snapshot when the call returned Ok                                      *)
C30_SnapshotWriteAtomic ==
    [][(steps' # steps /\ last'.op = "set_full_state") =>
           LET old == /\ node'.db.leaves = node.db.leaves
                      /\ node'.db.root = node.db.root
               new == /\ node'.db.leaves = smt'.accounts
                      /\ node'.db.root = root(smt')
           IN /\ old \/ new
              /\ last'.res = "Ok" => new
              /\ node'.db.tokens = node.db.tokens
              /\ node'.db.next_token_id = node.db.next_token_id]_vars

(* a snapshot was written over at least two stored leaves, one of which   *)
(* it does not hold, and the store now holds exactly the snapshot's leaves *)
C30_Witness ==
    /\ last.op = "set_full_state"
    /\ last.res = "Ok"
    /\ last.args.deleted >= 2
    /\ last.args.put >= 1
    /\ Cardinality(DOMAIN node.db.leaves) < last.args.deleted
    /\ node.db.leaves = smt.accounts

(* C31: a transfer_token call whose amount added to the receiver's balance *)
(* exceeds the u128 maximum returns an error (it neither succeeds nor      *)
(* panics) and leaves every leaf as it was                                 *)
C31_ReceiverOverflowRejected ==
    [][(/\ steps' # steps
        /\ last'.op = "transfer_token"
        /\ balance_of(smt, last'.args.to, last'.args.token_id) + last'.args.amount >= BalMod) =>
           /\ last'.res \notin {"Ok", "Panic"}
           /\ smt'.accounts = smt.accounts]_vars

----------------------------------------------------------------------------
(* calculate_consensus_scores applied to two lists of leaves *)

calculate_consensus_scores(local_accounts, remote_accounts) ==
    IF (consensus_fold(local_accounts).overflow \/ consensus_fold(remote_accounts).overflow)
       /\ debug_assertions
    THEN [res |-> "Panic", local_score |-> 0, remote_score |-> 0,
          local_total_balance |-> 0]
    ELSE [res |-> "Ok", local_score |-> consensus_score(local_accounts),
          remote_score |-> consensus_score(remote_accounts),
          local_total_balance |-> consensus_fold(local_accounts).total_balance]

ScoreLeaves == {AccountLeaf(a, b, n, 0) : a \in Addrs, b \in Balances, n \in Nonces}

(* lists of leaves of distinct keys, as get_all_accounts returns them *)
ScoreInputs ==
    {<<>>} \cup {<<l>> : l \in ScoreLeaves}
           \cup {<<l1, l2>> : l1 \in {l \in ScoreLeaves : l.addr = 0},
                              l2 \in {l \in ScoreLeaves : l.addr = MaxAddr}}

InitScore ==
    /\ smt = new_zero
    /\ debug_assertions \in BOOLEAN
    /\ last = Called("new_zero", "Ok", NoArgs)
    /\ steps = 0
    /\ \E accounts \in ScoreInputs : node = [main |-> "score", local_accounts |-> accounts]
    /\ tasks = NoTasks

Score ==
    \E remote_accounts \in PeerStates :
        LET r == calculate_consensus_scores(node.local_accounts, remote_accounts) IN
        /\ steps = 0
        /\ steps' = 1
        /\ last' = [op |-> "calculate_consensus_scores", res |-> r.res, args |-> r]
        /\ UNCHANGED <<smt, debug_assertions, node, tasks>>

NextScore == Score

SpecScore == InitScore /\ [][NextScore]_vars

(* the sum of the balances of a list of leaves, without any width *)
RECURSIVE plain_sum(_)
plain_sum(accounts) == IF accounts = <<>> THEN 0 ELSE Head(accounts).bal + plain_sum(Tail(accounts))

(* the largest nonce of a list of leaves, 0 for the empty list *)
RECURSIVE largest_nonce(_)
largest_nonce(accounts) ==
    IF accounts = <<>> THEN 0
    ELSE IF Head(accounts).nonce > largest_nonce(Tail(accounts)) THEN Head(accounts).nonce
         ELSE largest_nonce(Tail(accounts))

(* C32: calculate_consensus_scores returns, for the local list of leaves,  *)
(* 10 * (leaves with bal > 0) + 100 * (largest nonce) + total_balance/1000 *)
(* where total_balance is the sum of the balances saturated at the u128    *)
(* maximum; it does so without a panic                                     *)
C32_ScoreFormula ==
    [][(steps' # steps /\ last'.op = "calculate_consensus_scores") =>
           LET accounts == node.local_accounts
               saturated == IF plain_sum(accounts) >= BalMod THEN BalMod - 1
                            ELSE plain_sum(accounts)
               active == Cardinality({i \in 1..Len(accounts) : accounts[i].bal > 0})
           IN /\ last'.res = "Ok"
              /\ last'.args.local_total_balance = saturated
              /\ last'.args.local_score =
                     10 * active + 100 * largest_nonce(accounts) + (saturated \div 1000)]_vars

----------------------------------------------------------------------------
(* Gossip deliveries: an UpdateMsg built by a peer reaches the node, and   *)
(* gossipsub may hand the very same message to the node again              *)

DeliveryLeaves == {AccountLeaf(a, MaxAmount, n, 0) : a \in Addrs, n \in Nonces}

DeliveryStates ==
    {update(new_zero, l) : l \in DeliveryLeaves}
        \cup {update(update(new_zero, l1), l2) : l1 \in DeliveryLeaves, l2 \in DeliveryLeaves}

InitDelivery ==
    /\ smt \in DeliveryStates
    /\ debug_assertions \in BOOLEAN
    /\ last = Called("new_zero", "Ok", NoArgs)
    /\ steps = 0
    /\ node = [main |-> "gossip", delivered |-> NoArgs]
    /\ tasks = NoTasks

DeliveryStep ==
    /\ steps < MaxSteps
    /\ steps' = steps + 1
    /\ UNCHANGED <<debug_assertions, tasks>>

(* a message arrives for the first time *)
Deliver ==
    \E from \in Addrs, to \in Addrs, amount \in Amounts, nonce \in MsgNonces :
        LET u == peer_update(smt, from, to, 0, amount, nonce, "good")
            r == handle_update(smt, u)
        IN /\ DeliveryStep
           /\ smt' = r.smt
           /\ node' = [node EXCEPT !.delivered = IF r.res = "Ok" THEN u ELSE @]
           /\ last' = Called("handle_update", r.res, [from |-> from, to |-> to])

(* the message applied last arrives once more *)
DeliverAgain ==
    LET r == handle_update(smt, node.delivered) IN
    /\ node.delivered # NoArgs
    /\ DeliveryStep
    /\ smt' = r.smt
    /\ UNCHANGED node
    /\ last' = [op |-> "handle_update_again", res |-> r.res, args |-> NoArgs]

NextDelivery == Deliver \/ DeliverAgain

SpecDelivery == InitDelivery /\ [][NextDelivery]_vars

(* C33: a later delivery of an UpdateMsg that the node has applied is      *)
(* rejected and changes no leaf                                            *)
C33_ReplayRejected ==
    [][(steps' # steps /\ last'.op = "handle_update_again") =>
           /\ last'.res # "Ok"
           /\ smt'.accounts = smt.accounts]_vars

(* the state in which the leaf of addr carries nonce 0 and is otherwise    *)
(* the same                                                                *)
with_zero_nonce(s, addr) ==
    IF account_found(s, addr, 0)
    THEN update(s, [get_account_with_token(s, addr, 0) EXCEPT !.nonce = 0])
    ELSE s

(* whether the gossip applier applies the transfer a peer in the same      *)
(* state sends                                                             *)
accepts_transfer(s, from, to, amount, nonce) ==
    handle_update(s, peer_update(s, from, to, 0, amount, nonce, "good")).res = "Ok"

(* C34: in every reachable state, a transfer to another address that the   *)
(* gossip applier accepts when the recipient's nonce is 0 is accepted as   *)
(* well with the recipient's actual nonce                                  *)
C34_RecipientNonceIrrelevant ==
    \A from \in Addrs, to \in Addrs, amount \in Amounts, nonce \in MsgNonces :
        (from # to /\ accepts_transfer(with_zero_nonce(smt, to), from, to, amount, nonce))
            => accepts_transfer(smt, from, to, amount, nonce)

(* the UpdateMsg handle_send builds after its second lock section, from    *)
(* the root and the proofs it read in the first                            *)
emitted_update(task) ==
    UpdateMsg(task.msg.from, task.msg.to, task.msg.token_id, task.msg.amount,
              task.root, task.root, task.proof_from, task.proof_to,
              task.msg.nonce, task.signature)

(* C35: the UpdateMsg the send RPC emits for an applied transfer carries   *)
(* as root the node's root immediately before the transfer was applied and *)
(* as post_root the node's root immediately after it, whatever other       *)
(* requests were applied between the two lock sections of the handler      *)
C35_EmittedRootsBracketTransfer ==
    [][\A t \in TaskIds :
          (/\ tasks[t].pc = "send_ready"
           /\ tasks'[t].pc = "done"
           /\ tasks'[t].res = "Ok") =>
              /\ emitted_update(tasks[t]).root = root(smt)
              /\ emitted_update(tasks[t]).post_root = root(smt')]_vars

(* ---- transfers on a node with a database ---- *)

(* how the database part of one update can end: both puts succeed; one of  *)
(* the puts fails and is only logged; a column family handle or a          *)
(* serialization fails and update returns Err; the process dies before the *)
(* leaf is put, between the two puts, or after the root is put             *)
StorageOutcomes == {"Ok", "leaf_put_failed", "root_put_failed", "Err", "crash_before_leaf", "crash_after_leaf", "crash_after_root"}

(* update on an SMT with a database: the tree, the root and the cache are  *)
(* written first, then the leaf and the root are put one after the other   *)
update_with_db(s, db, leaf, outcome) ==
    LET s1 == update(s, leaf)
        k == compute_leaf_key(leaf.addr, leaf.token_id)
        leaf_stored == outcome \in {"Ok", "root_put_failed", "crash_after_leaf", "crash_after_root"}
        root_stored == outcome \in {"Ok", "leaf_put_failed", "crash_after_root"}
        db1 == IF leaf_stored
               THEN [db EXCEPT !.leaves = [x \in (DOMAIN db.leaves) \cup {k} |->
                                              IF x = k THEN leaf ELSE db.leaves[x]]]
               ELSE db
        db2 == IF root_stored THEN [db1 EXCEPT !.root = s1.root] ELSE db1
    IN [res |-> CASE outcome = "Err" -> "SMTError"
                  [] outcome \in {"crash_before_leaf", "crash_after_leaf", "crash_after_root"} -> "Crash"
                  [] OTHER -> "Ok",
        smt |-> s1, db |-> db2]

(* transfer_token on an SMT with a database: the checks, then the update   *)
(* of the sender's leaf and, if that returned Ok, of the receiver's        *)
transfer_token_with_db(s, db, from, to, token_id, amount, nonce, first, second) ==
    LET checked == transfer_token(s, from, to, token_id, amount, nonce) IN
    IF checked.res # "Ok" THEN [res |-> checked.res, smt |-> s, db |-> db]
    ELSE
    LET sender == get_account_with_token(s, from, token_id)
        receiver == IF account_found(s, to, token_id)
                    THEN get_account_with_token(s, to, token_id)
                    ELSE new_empty(to, token_id)
        new_sender == AccountLeaf(from, sender.bal - amount, (sender.nonce + 1) % NonceMod,
                                  token_id)
        new_receiver == AccountLeaf(to, (receiver.bal + amount) % BalMod, receiver.nonce,
                                    token_id)
        u1 == update_with_db(s, db, new_sender, first)
    IN IF u1.res # "Ok" THEN u1
       ELSE update_with_db(u1.smt, u1.db, new_receiver, second)

(* the second update runs only when the first returned Ok; a transfer that *)
(* fails its checks never reaches the database                             *)
TransferDb ==
    \E from \in Addrs, to \in Addrs, amount \in Amounts \ {0}, nonce \in MsgNonces,
       first \in StorageOutcomes :
        \E second \in (IF update_with_db(smt, node.db, new_empty(from, 0), first).res = "Ok"
                       THEN StorageOutcomes ELSE {"none"}) :
            LET r == transfer_token_with_db(smt, node.db, from, to, 0, amount, nonce, first, second)
                ran == transfer_token(smt, from, to, 0, amount, nonce).res = "Ok"
            IN /\ node.main = "running"
               /\ DbStep
               /\ smt' = r.smt
               /\ node' = [main |-> IF r.res = "Crash" THEN "down" ELSE "running", db |-> r.db]
               /\ last' = [op |-> "transfer_token", res |-> r.res,
                           args |-> [from |-> from, to |-> to, token_id |-> 0, amount |-> amount,
                                     nonce |-> nonce,
                                     first |-> IF ran THEN first ELSE "none",
                                     second |-> IF ran THEN second ELSE "none"]]

NextStore == UpdateDb \/ TransferDb \/ LoadFromDb

SpecStore == InitDb /\ [][NextStore]_vars

(* C36: a transfer that returns an error because the database step of one  *)
(* of its two leaf updates failed leaves the in-memory leaves as they      *)
(* were: neither the debit nor the credit is visible                       *)
C36_TransferAtomicOnStorageError ==
    [][(/\ steps' # steps
        /\ last'.op = "transfer_token"
        /\ last'.res = "SMTError"
        /\ account_found(smt, last'.args.from, 0)) =>
           smt'.accounts = smt.accounts]_vars

(* what load_from_db makes of a database *)
reloaded(db) == load_from_db(db).smt

(* C37: wherever the process dies during a transfer, the database reloads  *)
(* to a state that holds both leaves the transfer writes or the leaves as  *)
(* they were stored before it                                              *)
C37_CrashKeepsBothOrNeither ==
    [][(/\ steps' # steps
        /\ last'.op = "transfer_token"
        /\ last'.res = "Crash") =>
           LET a == last'.args
               done == transfer_token(smt, a.from, a.to, a.token_id, a.amount, a.nonce).smt
               after == reloaded(node'.db)
           IN \/ after.accounts = reloaded(node.db).accounts
              \/ /\ account_found(after, a.from, a.token_id)
                 /\ account_found(after, a.to, a.token_id)
                 /\ get_account_with_token(after, a.from, a.token_id)
                        = get_account_with_token(done, a.from, a.token_id)
                 /\ get_account_with_token(after, a.to, a.token_id)
                        = get_account_with_token(done, a.to, a.token_id)]_vars

(* ---- a node serving the two mint RPCs ---- *)

(* a freshly started node: the empty state, empty channels and proof store *)
InitMintRpc ==
    /\ smt = new_zero
    /\ debug_assertions \in BOOLEAN
    /\ last = Called("new_zero", "Ok", NoArgs)
    /\ steps = 0
    /\ node = [main |-> "rpc", update_tx |-> 0, gossip_tx |-> 0, proof_store |-> {}]
    /\ tasks = NoTasks

NextMintRpc == RpcMint \/ RpcMintToken \/ ForwardMint

SpecMintRpc == InitMintRpc /\ [][NextMintRpc]_vars

(* C38: a successful mint RPC or p3p_mintToken RPC called in a state where *)
(* every token's total_supply equals the sum of the balances of its leaves *)
(* leads to a state where that still holds                                 *)
C38_MintRpcsKeepSupply ==
    [][(/\ steps' # steps
        /\ last'.op \in {"mint", "p3p_mintToken"}
        /\ last'.res = "Ok"
        /\ SupplyIdentity(smt)) =>
           SupplyIdentity(smt')]_vars

(* ---- signed requests submitted twice ---- *)

(* the bytes the issuer signs: the IssueToken message with token_id 0 and  *)
(* an empty signature                                                      *)
issue_rpc_preimage(issuer, metadata, nonce) == <<"IssueToken", issuer, 0, metadata, nonce>>

(* handle_issue_token: the signature is verified against the issuer's key  *)
(* and the token is registered; the nonce of the message is only signed    *)
handle_issue_token(s, issuer, metadata, nonce, signature) ==
    IF signature # Sign(issuer, issue_rpc_preimage(issuer, metadata, nonce))
    THEN Result("InvalidSignature", s)
    ELSE Result("Ok", register_token(s, issuer, metadata))

InitReplay ==
    /\ smt = new_zero
    /\ debug_assertions \in BOOLEAN
    /\ last = Called("new_zero", "Ok", NoArgs)
    /\ steps = 0
    /\ node = [main |-> "rpc", gossip_tx |-> 0, proof_store |-> {}, accepted |-> NoArgs]
    /\ tasks = NoTasks

(* a mint request arrives; an accepted one is remembered by the client     *)
SubmitMint ==
    \E from \in Addrs, to \in Addrs, amount \in Amounts \ {0}, signer \in Addrs :
        LET signature == Sign(signer, mint_rpc_preimage(to, amount))
            r == handle_mint(smt, node.proof_store, node.gossip_tx >= ChannelCap, from, to,
                             amount, signature)
        IN /\ RpcStep
           /\ smt' = r.smt
           /\ node' = [node EXCEPT !.gossip_tx = IF r.sent THEN @ + 1 ELSE @,
                                   !.proof_store = r.proof_store,
                                   !.accepted = IF r.res = "Ok"
                                                THEN [rpc |-> "mint", from |-> from, to |-> to,
                                                      amount |-> amount, signature |-> signature]
                                                ELSE @]
           /\ last' = Called("mint", r.res, [from |-> from, to |-> to])

SubmitIssue ==
    \E issuer \in Addrs, metadata \in Metadatas, nonce \in MsgNonces, signer \in Addrs :
        LET signature == Sign(signer, issue_rpc_preimage(issuer, metadata, nonce))
            r == handle_issue_token(smt, issuer, metadata, nonce, signature)
        IN /\ RpcStep
           /\ smt' = r.smt
           /\ node' = [node EXCEPT !.accepted = IF r.res = "Ok"
                                                THEN [rpc |-> "p3p_issueToken", issuer |-> issuer,
                                                      metadata |-> metadata, nonce |-> nonce,
                                                      signature |-> signature]
                                                ELSE @]
           /\ last' = Called("p3p_issueToken", r.res, [from |-> issuer, to |-> issuer])

(* the accepted request is submitted once more, byte for byte *)
Resubmit ==
    /\ node.accepted # NoArgs
    /\ RpcStep
    /\ LET a == node.accepted IN
       IF a.rpc = "mint"
       THEN LET r == handle_mint(smt, node.proof_store, node.gossip_tx >= ChannelCap, a.from,
                                 a.to, a.amount, a.signature)
            IN /\ smt' = r.smt
               /\ node' = [node EXCEPT !.gossip_tx = IF r.sent THEN @ + 1 ELSE @,
                                       !.proof_store = r.proof_store]
               /\ last' = Called("resubmit", r.res, [from |-> a.from, to |-> a.to])
       ELSE LET r == handle_issue_token(smt, a.issuer, a.metadata, a.nonce, a.signature)
            IN /\ smt' = r.smt
               /\ node' = node
               /\ last' = Called("resubmit", r.res, [from |-> a.issuer, to |-> a.issuer])

NextReplay == SubmitMint \/ SubmitIssue \/ Resubmit \/ ForwardMint

SpecReplay == InitReplay /\ [][NextReplay]_vars

(* C39: a signed mint or p3p_issueToken request that was accepted and is   *)
(* submitted again unchanged is rejected, and the resubmission changes no  *)
(* leaf and registers no token                                             *)
C39_AcceptedRequestOnlyOnce ==
    [][(steps' # steps /\ last'.op = "resubmit") =>
           /\ last'.res # "Ok"
           /\ smt'.accounts = smt.accounts
           /\ smt'.token_registry = smt.token_registry]_vars

(* ---- the set_full_state RPC ---- *)

(* the loop of handle_set_full_state: update_account for every account *)
RECURSIVE update_accounts(_, _)
update_accounts(s, accounts) == IF accounts = <<>> THEN s ELSE update_accounts(update(s, Head(accounts)), Tail(accounts))

RECURSIVE put_proofs(_, _, _)
put_proofs(store, accounts, proof_root) == IF accounts = <<>> THEN store ELSE put_proofs(put_proof(store, Head(accounts).addr, proof_root), Tail(accounts), proof_root)

(* handle_set_full_state: a non-empty node refuses a different root; a     *)
(* non-empty node is reset to new_zero; the accounts are written one by    *)
(* one; the resulting root is compared with the supplied one; the proofs   *)
(* of the accounts are stored under the new root                           *)
handle_set_full_state(s, store, accounts, full_root) ==
    LET current_root == root(s) IN
    IF current_root # ZeroHash /\ current_root # full_root
    THEN MintResult("DifferentRoot", s, FALSE, store)
    ELSE
    LET s1 == update_accounts(IF current_root # ZeroHash THEN new_zero ELSE s, accounts)
    IN IF root(s1) # full_root THEN MintResult("RootMismatch", s1, FALSE, store)
       ELSE MintResult("Ok", s1, FALSE, put_proofs(store, accounts, root(s1)))

RpcSetFullState ==
    \E accounts \in StoredSnapshots :
        \E full_root \in {snapshot_root(accounts), root(smt), ZeroHash} :
            LET r == handle_set_full_state(smt, node.proof_store, accounts, full_root)
            IN /\ RpcStep
               /\ smt' = r.smt
               /\ node' = [node EXCEPT !.proof_store = r.proof_store]
               /\ last' = Called("set_full_state", r.res, [from |-> Len(accounts), to |-> 0])

NextFullState == RpcMint \/ RpcSetFullState \/ ForwardMint

SpecFullState == InitMintRpc /\ [][NextFullState]_vars

(* C40: a set_full_state RPC that returns an error, whether for a          *)
(* different root supplied to a non-empty node or for accounts that do not *)
(* hash to the supplied root, leaves the leaves, the root and the token    *)
(* registry as they were                                                   *)
C40_FailedSetFullStateKeepsState ==
    [][(steps' # steps /\ last'.op = "set_full_state" /\ last'.res # "Ok") =>
           /\ smt'.accounts = smt.accounts
           /\ root(smt') = root(smt)
           /\ smt'.token_registry = smt.token_registry]_vars

====
